---- MODULE Spec2Model ----
(***************************************************************************)
(* Model of backstop_history: the BackstopHistory class that assembles a   *)
(* time-sorted master list of backstop commands from weekly loads and the  *)
(* Non-Load Event Tracking (NLET) file, and the LTCTI_RTS expander.        *)
(*                                                                         *)
(* Times ('time' fields, seconds) are integers counted in ticks of         *)
(* 1/TicksPerSec second.  Date strings ('date' fields, DOY format with     *)
(* millisecond resolution) are integers counted in milliseconds.           *)
(***************************************************************************)
EXTENDS Integers, Sequences, FiniteSets, TLC

\* ------------------------------------------------------------------------
\* Bounds of the model
\* ------------------------------------------------------------------------
MaxTime == 3
MaxLen == 2
MaxVoLen == 1
MaxLog == 1
MaxCalls == 2
ChainLen == 1
MaxTrimLen == 3
MaxFileLen == 2
MaxScanLog == 2
MaxRtsLen == 2
MaxRtsCalls == 3
NumLoads == 3
MaxChainLength == 3
MaxSynthCalls == 2
MaxListCalls == 2
MaxListTime == 2
MaxReuseCalls == 2

\* ------------------------------------------------------------------------
\* Units and program constants
\* ------------------------------------------------------------------------
TicksPerSec == 2
MsPerTick == 1000 \div TicksPerSec

\* self.end_event_time = None
None == -1

\* 'time': -1.0 and 'date': '1900:001' of every template record
TemplateTime == -1 * TicksPerSec
TemplateDate == -1000000000

Time == 0 .. MaxTime

\* ------------------------------------------------------------------------
\* Chandra.Time.DateTime conversions
\* ------------------------------------------------------------------------
\* DateTime(date_string).secs : a date has millisecond resolution
DateTimeSecs(d) == d \div MsPerTick

\* DateTime(secs).date
DateTimeDate(t) == t * MsPerTick

\* DateTime(x).secs where x is a number of seconds or None; DateTime(None)
\* is the current time
SecsOf(x, now) == IF x = None THEN now ELSE x

\* numpy stores a float in an '<i8' field by truncating it to whole seconds
IntSecs(t) == (t \div TicksPerSec) * TicksPerSec

\* ------------------------------------------------------------------------
\* Sequences
\* ------------------------------------------------------------------------
\* insert x behind every element whose time is <= x.time
RECURSIVE InsertByTime(_, _)
InsertByTime(x, s) ==
    IF s = << >> THEN << x >>
    ELSE IF Head(s).time <= x.time THEN << Head(s) >> \o InsertByTime(x, Tail(s))
         ELSE << x >> \o s

RECURSIVE SortFrom(_, _)
SortFrom(s, acc) ==
    IF s = << >> THEN acc ELSE SortFrom(Tail(s), InsertByTime(Head(s), acc))

\* insert x in front of every element whose time is >= x.time
RECURSIVE InsertBeforeTies(_, _)
InsertBeforeTies(x, s) ==
    IF s = << >> THEN << x >>
    ELSE IF Head(s).time < x.time
         THEN << Head(s) >> \o InsertBeforeTies(x, Tail(s))
         ELSE << x >> \o s

RECURSIVE SortFromTiesReversed(_, _)
SortFromTiesReversed(s, acc) ==
    IF s = << >> THEN acc
    ELSE SortFromTiesReversed(Tail(s), InsertBeforeTies(Head(s), acc))

\* a variant of SortByTime that is not stable: it reverses equal times
SortByTime_TiesReversed(s) == SortFromTiesReversed(s, << >>)

\* a variant of SortByTime that leaves the list in the order it was built
SortByTime_AsBuilt(s) == s

\* sorted(lst, key=lambda k: k['time']) : Python's sort is stable
SortByTime(s) == SortFrom(s, << >>)

IsSorted(s) == \A i \in 1 .. Len(s) - 1 : s[i].time <= s[i + 1].time

\* sorted sequences of times of length n
SortedTimes(n) ==
    { s \in [1 .. n -> Time] : \A i \in 1 .. n - 1 : s[i] <= s[i + 1] }

\* ------------------------------------------------------------------------
\* State
\* ------------------------------------------------------------------------
VARIABLES
    master_list,              \* self.master_list
    end_event_time,           \* self.end_event_time
    backstop_file_path_list,  \* self.backstop_file_path_list: the files, by content
    nlet,                     \* the file at self.NLET_tracking_file_path
    rts_file,                 \* the <RTS_name>.RTS file in self.RTS.RTS_file_loc
    RTS,                      \* self.RTS: the attributes of the LTCTI_RTS instance
    backstop_lists,           \* self.load_list, self.backstop_list, self.load_type_list
    heap,                     \* the template dicts of the instance and their copies, by address
    call,                     \* the last call: its name, arguments and outcome
    ret,                      \* the list last returned to the caller
    scans,                    \* the windows searched in the NLET file so far
    ncalls                    \* number of calls made on the instance

vars == << master_list, end_event_time, backstop_file_path_list, nlet,
           rts_file, RTS, backstop_lists, heap, call, ret, scans, ncalls >>

\* ------------------------------------------------------------------------
\* Command records
\* ------------------------------------------------------------------------
\* One command of a backstop file as kadi.commands.get_cmds_from_backstop
\* gives it.  src, call, ev and idx stand for the identity of the Python
\* dict: the list it came from, the call that brought it in, the NLET line
\* it was made for, its position in its list.
LoadCmd(t, src, k, i) ==
    [time |-> t, date |-> DateTimeDate(t), cmd |-> "LOADCMD",
     tlmsid |-> "NONE", src |-> src, call |-> k, ev |-> 0, idx |-> i]

\* the command list of a load: the backstop file is in time order
LoadOf(times, src, k) ==
    [i \in 1 .. Len(times) |-> LoadCmd(times[i], src, k, i)]

LoadTimes(maxlen) == UNION { SortedTimes(n) : n \in 0 .. maxlen }

\* self.scs107_bs_cmds : SIMTRANS, AA00000000, AA00000000, WSPOW00000
scs107_bs_cmds ==
    << [time |-> TemplateTime, date |-> TemplateDate, cmd |-> "SIMTRANS",
        tlmsid |-> "NONE", src |-> "scs107", call |-> 0, ev |-> 0,
        idx |-> 1],
       [time |-> TemplateTime, date |-> TemplateDate, cmd |-> "ACISPKT",
        tlmsid |-> "AA00000000", src |-> "scs107", call |-> 0, ev |-> 0,
        idx |-> 2],
       [time |-> TemplateTime, date |-> TemplateDate, cmd |-> "ACISPKT",
        tlmsid |-> "AA00000000", src |-> "scs107", call |-> 0, ev |-> 0,
        idx |-> 3],
       [time |-> TemplateTime, date |-> TemplateDate, cmd |-> "ACISPKT",
        tlmsid |-> "WSPOW00000", src |-> "scs107", call |-> 0, ev |-> 0,
        idx |-> 4] >>

\* self.MAN_bs_cmds
MAN_bs_cmds ==
    [time |-> TemplateTime, date |-> TemplateDate, cmd |-> "MP_TARGQUAT",
     tlmsid |-> "AOUPTARQ", src |-> "MAN", call |-> 0, ev |-> 0, idx |-> 0]

\* self.AOMANUVR_bs_cmd
AOMANUVR_bs_cmd ==
    [time |-> TemplateTime, date |-> TemplateDate, cmd |-> "COMMAND_SW",
     tlmsid |-> "AOMANUVR", src |-> "MAN", call |-> 0, ev |-> 0, idx |-> 0]

\* self.WSVIDALLDN_bs_cmd, self.WSPOW00000_bs_cmd, self.WSPOW0002A_bs_cmd
PowerTemplate(name) ==
    [time |-> TemplateTime, date |-> TemplateDate, cmd |-> "ACISPKT",
     tlmsid |-> name, src |-> "PWR", call |-> 0, ev |-> 0, idx |-> 0]

\* self.power_cmd_list
power_cmd_list == { "WSPOW00000", "WSPOW0002A", "WSVIDALLDN" }

\* ---- the templates as objects ----
\* A dict is an object at an address of the heap.  A command dict refers to
\* its nested 'params' dict by address.  TemplateValues lists the templates
\* of the instance; template n has its params dict at address 2n - 1 and its
\* command dict at address 2n.
TemplateValues ==
    scs107_bs_cmds
    \o << MAN_bs_cmds, AOMANUVR_bs_cmd, PowerTemplate("WSVIDALLDN"),
          PowerTemplate("WSPOW00000"), PowerTemplate("WSPOW0002A") >>

ParamsOf(n) ==
    [kind |-> "params", TLMSID |-> TemplateValues[n].tlmsid,
     Q |-> IF TemplateValues[n].cmd = "MP_TARGQUAT" THEN 1000 ELSE None]

TemplateObjects ==
    [a \in 1 .. 2 * Len(TemplateValues) |->
        IF a % 2 = 1 THEN ParamsOf((a + 1) \div 2)
        ELSE [kind |-> "cmd", cmd |-> TemplateValues[a \div 2].cmd,
              time |-> TemplateTime, date |-> TemplateDate,
              params |-> a - 1]]

\* the address of the command dict of template n
TemplateRef(n) == 2 * n

\* self.scs107_bs_cmds, a list of dicts; the single templates
scs107_refs == [i \in 1 .. Len(scs107_bs_cmds) |-> TemplateRef(i)]
MAN_ref == TemplateRef(Len(scs107_bs_cmds) + 1)
AOMANUVR_ref == TemplateRef(Len(scs107_bs_cmds) + 2)
PowerRef(name) ==
    IF name = "WSVIDALLDN" THEN TemplateRef(Len(scs107_bs_cmds) + 3)
    ELSE IF name = "WSPOW00000" THEN TemplateRef(Len(scs107_bs_cmds) + 4)
    ELSE TemplateRef(Len(scs107_bs_cmds) + 5)

\* copy.copy of the command dict at address a: a new command dict that
\* refers to the same params dict
deepcopy_Shallow(h, a) == [heap |-> Append(h, h[a]), ref |-> Len(h) + 1]

\* copy.deepcopy of the command dict at address a: a new params dict and a
\* new command dict that refers to it
deepcopy(h, a) ==
    [heap |-> h \o << h[h[a].params],
                      [h[a] EXCEPT !.params = Len(h) + 1] >>,
     ref |-> Len(h) + 2]

\* copy.deepcopy of a list of command dicts
RECURSIVE deepcopy_list(_, _)
deepcopy_list(h, refs) ==
    IF refs = << >> THEN [heap |-> h, refs |-> << >>]
    ELSE LET c == deepcopy(h, Head(refs))
             rest == deepcopy_list(c.heap, Tail(refs))
         IN  [heap |-> rest.heap, refs |-> << c.ref >> \o rest.refs]

\* d['date'] = date; d['time'] = time for the dict at address a
SetDateTime(h, a, t) ==
    [h EXCEPT ![a].time = t, ![a].date = DateTimeDate(t)]

\* the loop that stamps the copies of the SCS-107 commands from base_time on
RECURSIVE StampFrom(_, _, _, _)
StampFrom(h, refs, i, base_time) ==
    IF i > Len(refs) THEN h
    ELSE StampFrom(SetDateTime(h, refs[i], base_time), refs, i + 1,
                   base_time + TicksPerSec)

\* self.SCS_NUM = '135' of a new LTCTI_RTS instance
SCS_NUM == 135

\* ------------------------------------------------------------------------
\* Event Log Reader
\* ------------------------------------------------------------------------
\* A line of the NLET file: tok0 is "#" (comment), "GO", "" (blank line) or
\* "T" (a time stamp, given by date); type is the second token; arg is the
\* NUM_HOURS token of an LTCTI line.
NletLine(tok0, t, type, arg) ==
    [tok0 |-> tok0, date |-> DateTimeDate(t), type |-> type, arg |-> arg]

RECURSIVE ScanNlet(_, _, _, _)
\* the while loop of Find_Events_Between_Dates from line i on
ScanNlet(lines, i, tstart, tstop) ==
    IF i > Len(lines) THEN [raised |-> FALSE, events |-> << >>]
    ELSE LET l == lines[i]
             rest == ScanNlet(lines, i + 1, tstart, tstop)
         IN  IF l.tok0 = "#" THEN rest
             ELSE IF l.tok0 = "" THEN [raised |-> TRUE, events |-> << >>]
             ELSE IF l.tok0 # "GO" /\ DateTimeSecs(l.date) > tstart
                                   /\ DateTimeSecs(l.date) < tstop
                  THEN IF rest.raised THEN rest
                       ELSE [raised |-> FALSE,
                             events |-> << [date |-> l.date, type |-> l.type,
                                            arg |-> l.arg, n |-> i] >>
                                        \o rest.events]
                  ELSE rest

\* a variant of Find_Events_Between_Dates that keeps the lines at tstart
Find_Events_From_Date(tstart, tstop) ==
    IF ~nlet.exists THEN [raised |-> TRUE, events |-> << >>]
    ELSE ScanNlet(nlet.lines, 1, tstart - 1, tstop)

Find_Events_Between_Dates(tstart, tstop) ==
    IF ~nlet.exists THEN [raised |-> TRUE, events |-> << >>]
    ELSE ScanNlet(nlet.lines, 1, tstart, tstop)

\* ------------------------------------------------------------------------
\* Calibration-run expander (LTCTI_RTS)
\* ------------------------------------------------------------------------
\* A time string 'ddd:hh:mm:ss' is the sequence of its fields, each counted
\* in 1/TicksPerSec of its unit.
DeltaWeights == << 86400, 3600, 60, 1 >>

RECURSIVE ZipSum(_, _, _)
ZipSum(fields, weights, i) ==
    IF i > Len(fields) \/ i > Len(weights) THEN 0
    ELSE fields[i] * weights[i] + ZipSum(fields, weights, i + 1)

\* a variant whose weights start at the hours
convert_RTS_DELTA_to_secs_FromHours(time_string) ==
    ZipSum(time_string, << 3600, 60, 1 >>, 1)

convert_RTS_DELTA_to_secs(time_string) == ZipSum(time_string, DeltaWeights, 1)

\* the '|S20' date field keeps 20 of the 21 characters of a DOY date
S20(date) == (date \div 10) * 10

\* the local variable mnemonic before its first assignment
Unbound == "<unbound>"

\* A line of the RTS script: c0 says how it starts ("!" a comment, "" an
\* empty line, "c" anything else), statement is "/CMD", "ACIS" or "None"
\* (neither token is on the line), mnemonic the token after the statement,
\* and delta is [kind |-> "none"], [kind |-> "hours"] (DELTA=&NUM_HOURS&) or
\* [kind |-> "lit", v |-> the fields of 'hh:mm:ss.sss'].  The walk keeps
\* present_time and, for a line without a statement, the mnemonic of the
\* line before.
RECURSIVE WalkRTS(_, _, _, _, _, _)
WalkRTS(lines, i, present_time, cti_duration_secs, scs, mnemonic) ==
    IF i > Len(lines) THEN << >>
    ELSE LET st == lines[i]
             dt == IF st.delta.kind = "none" THEN 0
                   ELSE IF st.delta.kind = "hours" THEN cti_duration_secs
                   ELSE convert_RTS_DELTA_to_secs(<< 0 >> \o st.delta.v)
             t == present_time + dt
             mn == IF st.statement # "None" THEN st.mnemonic ELSE mnemonic
         IN  IF st.c0 = "!" \/ st.c0 = ""
             THEN WalkRTS(lines, i + 1, present_time, cti_duration_secs,
                          scs, mnemonic)
             ELSE << [date |-> S20(DateTimeDate(t)), time |-> t,
                      statement |-> st.statement, mnemonic |-> mn,
                      DELTA |-> dt, SCS_NUM |-> scs] >>
                  \o WalkRTS(lines, i + 1, t, cti_duration_secs, scs, mn)

\* a line that is neither a comment nor empty is without a statement and so
\* is every such line before it: the entry of that line reads mnemonic
\* before any line assigned it
UsesUnbound(lines) ==
    \E i \in 1 .. Len(lines) :
        /\ lines[i].c0 = "c"
        /\ \A j \in 1 .. i : lines[j].c0 = "c" => lines[j].statement = "None"

\* processRTS(RTS_load, SCS_NUM, NUM_HOURS, RTS_start_date), where rts_file
\* is the file self.RTS_name + '.RTS' that it opens; it raises when the file
\* cannot be opened and when a line uses mnemonic before any line assigned it
processRTS(scs, NUM_HOURS, RTS_start_date) ==
    IF ~rts_file.exists \/ UsesUnbound(rts_file.steps)
    THEN [raised |-> TRUE, cmds |-> << >>]
    ELSE [raised |-> FALSE,
          cmds |-> WalkRTS(rts_file.steps, 1, DateTimeSecs(RTS_start_date),
                           convert_RTS_DELTA_to_secs(NUM_HOURS), scs,
                           Unbound)]

\* keys of LTCTI_ACIS_commands.cmd_vals
cmd_vals ==
    { "XTZ0000005", "XCZ0000005", "RS_0000001", "RH_0000001", "AA00000000",
      "WSVIDALLDN", "WT007AC024", "WT007AE024", "WT00B26014", "WSPOW08F3E",
      "WSPOW0CF3F", "WSPOW00000", "WSPOW0002A", "WSPOW08E1E", "WT00C62014",
      "WT00C60014" }

RECURSIVE ConvertFrom(_, _)
ConvertFrom(RTS_cmds, step) ==
    IF step > Len(RTS_cmds) THEN [raised |-> FALSE, cmds |-> << >>]
    ELSE LET c == RTS_cmds[step]
             rest == ConvertFrom(RTS_cmds, step + 1)
         IN  IF c.statement # "ACIS" THEN rest
             ELSE IF c.mnemonic \notin cmd_vals
                  THEN [raised |-> TRUE, cmds |-> << >>]
             ELSE IF rest.raised THEN rest
             ELSE [raised |-> FALSE,
                   cmds |-> << [time |-> c.time, date |-> c.date,
                                cmd |-> "ACISPKT", tlmsid |-> "NONE",
                                scs |-> RTS.SCS_NUM, step |-> step,
                                src |-> "LTCTI", call |-> 0, ev |-> 0,
                                idx |-> step] >>
                            \o rest.cmds]

\* a variant that numbers the ACIS steps among themselves
convert_ACIS_RTS_to_ska_parse_AcisOnly(RTS_cmds) ==
    ConvertFrom(SelectSeq(RTS_cmds, LAMBDA c : c.statement = "ACIS"), 1)

convert_ACIS_RTS_to_ska_parse(RTS_cmds) == ConvertFrom(RTS_cmds, 1)

\* ------------------------------------------------------------------------
\* Trimming
\* ------------------------------------------------------------------------
\* The argument of DateTime(...): seconds or a date string
AsSecs(t) == [fmt |-> "secs", v |-> t]
AsDate(d) == [fmt |-> "date", v |-> d]

\* DateTime(x).secs
DateTime(x) == IF x.fmt = "date" THEN DateTimeSecs(x.v) ELSE x.v

\* a variant of Trim_bs_cmds_After_Date that keeps the commands at the cutoff
Trim_bs_cmds_After_Date_Inclusive(trim_date, cmd_list) ==
    LET trim_time == DateTime(trim_date)
    IN  SelectSeq(cmd_list, LAMBDA cmd : cmd.time <= trim_time)

Trim_bs_cmds_After_Date(trim_date, cmd_list) ==
    LET trim_time == DateTime(trim_date)
    IN  SelectSeq(cmd_list, LAMBDA cmd : cmd.time < trim_time)

Trim_bs_cmds_Before_Date(trim_date, cmd_list) ==
    LET trim_time == DateTime(trim_date)
    IN  SelectSeq(cmd_list, LAMBDA cmd : cmd.time >= trim_time)

\* ------------------------------------------------------------------------
\* Command Synthesizer
\* ------------------------------------------------------------------------
\* the records of seq s as made by call k for NLET line n
Tagged(s, k, n) == [i \in 1 .. Len(s) |-> [s[i] EXCEPT !.call = k, !.ev = n]]

\* A line of a CR*.backstop file: date, command type and TLMSID.  The
\* result has event_time in an '<i8' field.
get_ACIS_backstop_cmds(infile) ==
    [i \in 1 .. Len(infile) |->
        [event_date |-> infile[i].date,
         event_time |-> IntSecs(DateTimeSecs(infile[i].date)),
         cmd_type |-> infile[i].cmd_type,
         packet_or_cmd |-> infile[i].packet]]

RECURSIVE ContinuityCmds(_, _)
\* for eachCR_file in self.backstop_file_path_list[:0:-1], from file i down
ContinuityCmds(i, trim_time) ==
    IF i < 2 THEN << >>
    ELSE SelectSeq(get_ACIS_backstop_cmds(backstop_file_path_list[i]),
                   LAMBDA c : c.event_time <= trim_time)
         \o ContinuityCmds(i - 1, trim_time)

Process_LTCTI(ltcti_event, trim_time, ml, k) ==
    LET RTS_start_date == ltcti_event.date
        ltcti_cmd_list == processRTS(RTS.SCS_NUM, ltcti_event.arg, RTS_start_date)
        LTCTI_bs_cmds == convert_ACIS_RTS_to_ska_parse(ltcti_cmd_list.cmds)
        ltcti_cmd_list_start_time == DateTimeSecs(RTS_start_date)
        ACIS_specific_cmds ==
            ContinuityCmds(Len(backstop_file_path_list), trim_time)
            \o get_ACIS_backstop_cmds(backstop_file_path_list[1])
        cut_cmd_indices ==
            SelectSeq(ACIS_specific_cmds,
                      LAMBDA c : c.event_time >= ltcti_cmd_list_start_time
                                 /\ c.packet_or_cmd = "AA00000000")
        trimmed_LTCTI_bs_cmds ==
            IF cut_cmd_indices = << >> THEN LTCTI_bs_cmds.cmds
            ELSE Trim_bs_cmds_After_Date(AsSecs(cut_cmd_indices[1].event_time),
                                         LTCTI_bs_cmds.cmds)
    IN  IF ltcti_cmd_list.raised \/ LTCTI_bs_cmds.raised
           \/ ltcti_cmd_list.cmds = << >> \/ backstop_file_path_list = << >>
        THEN [raised |-> TRUE, ml |-> ml]
        ELSE [raised |-> FALSE,
              ml |-> ml \o Tagged(trimmed_LTCTI_bs_cmds, k, ltcti_event.n)]

\* pitch != 0.0, where pitch = man_event[2] is a token of the split line (a
\* string, which differs from every float) or, in a direct call, a number
PitchIsNonZero(pitch) == pitch.kind = "str" \/ pitch.v # 0

Process_MAN(man_event, ml, k) ==
    LET t == DateTimeSecs(man_event.date)
        new_maneuver == [MAN_bs_cmds EXCEPT !.date = man_event.date,
                                            !.time = t,
                                            !.call = k, !.ev = man_event.n]
        aoman_time == t + TicksPerSec
        aoman == [AOMANUVR_bs_cmd EXCEPT !.date = DateTimeDate(aoman_time),
                                         !.time = aoman_time,
                                         !.call = k, !.ev = man_event.n]
    IN  IF PitchIsNonZero(man_event.arg)
        THEN Append(Append(ml, new_maneuver), aoman)
        ELSE Append(ml, aoman)

Process_Power_Cmd(power_cmd_event, ml, k) ==
    LET new_pwr_cmd ==
            IF power_cmd_event.type = "WSVIDALLDN"
            THEN PowerTemplate("WSVIDALLDN")
            ELSE IF power_cmd_event.type = "WSPOW00000"
                 THEN PowerTemplate("WSPOW00000")
                 ELSE PowerTemplate("WSPOW0002A")
        t == DateTimeSecs(power_cmd_event.date)
    IN  Append(ml, [new_pwr_cmd EXCEPT !.date = DateTimeDate(t), !.time = t,
                                       !.call = k, !.ev = power_cmd_event.n])

RECURSIVE Dispatch(_, _, _, _, _)
\* the "for eachevent in event_list" loop of the Combine methods from event
\* i on; with_MAN is TRUE in CombineSTOP, whose loop has the MAN branch
Dispatch(event_list, i, ml, with_MAN, arg) ==
    IF i > Len(event_list) THEN [raised |-> FALSE, ml |-> ml]
    ELSE LET e == event_list[i]
         IN  IF with_MAN /\ e.type = "MAN"
             THEN Dispatch(event_list, i + 1, Process_MAN(e, ml, arg.k),
                           with_MAN, arg)
             ELSE IF e.type = "LTCTI"
             THEN LET r == Process_LTCTI(e, arg.trim_time, ml, arg.k)
                  IN  IF r.raised THEN r
                      ELSE Dispatch(event_list, i + 1, r.ml, with_MAN, arg)
             ELSE IF e.type \in power_cmd_list
             THEN Dispatch(event_list, i + 1, Process_Power_Cmd(e, ml, arg.k),
                           with_MAN, arg)
             ELSE Dispatch(event_list, i + 1, ml, with_MAN, arg)

\* ------------------------------------------------------------------------
\* Timeline Combinator
\* ------------------------------------------------------------------------
\* Outcome of a call that raised with self.master_list bound to ml: the
\* cursor is as before
Raised(ml, scan) ==
    [raised |-> TRUE, master_list |-> ml, end_event_time |-> end_event_time,
     scan |-> scan]

\* a variant of Returned that moves the cursor to the time of the last
\* command of the list
Returned_LastTime(ml, scan) ==
    [raised |-> FALSE, master_list |-> ml,
     end_event_time |-> ml[Len(ml)].time, scan |-> scan]

\* self.master_list = sorted(...); self.end_event_time =
\* self.master_list[0]['time']; return self.master_list
Returned(ml, scan) ==
    [raised |-> FALSE, master_list |-> ml, end_event_time |-> ml[1].time,
     scan |-> scan]

\* a variant of Scs107At that does not advance base_time
Scs107At_NoStep(base_time, k) ==
    [i \in 1 .. Len(scs107_bs_cmds) |->
        [scs107_bs_cmds[i] EXCEPT
            !.time = base_time,
            !.date = DateTimeDate(base_time),
            !.call = k]]

\* copy.deepcopy(self.scs107_bs_cmds) with the times populated from
\* base_time on, base_time += 1.0 after each command
Scs107At(base_time, k) ==
    [i \in 1 .. Len(scs107_bs_cmds) |->
        [scs107_bs_cmds[i] EXCEPT
            !.time = base_time + (i - 1) * TicksPerSec,
            !.date = DateTimeDate(base_time + (i - 1) * TicksPerSec),
            !.call = k]]

\* a variant of EventScan whose loop has the MAN branch in every method
EventScan_WithMAN(ml, with_MAN, trim_time, k, now) ==
    LET tstart == ml[1].time
        tstop == SecsOf(end_event_time, now)
        event_list == Find_Events_Between_Dates(tstart, tstop)
        done == Dispatch(event_list.events, 1, ml, TRUE,
                         [trim_time |-> trim_time, k |-> k])
    IN  IF event_list.raised
        THEN [raised |-> TRUE, ml |-> ml, scan |-> << >>]
        ELSE [raised |-> done.raised, ml |-> done.ml,
              scan |-> << << tstart, tstop >> >>]

\* a variant of EventScan that searches up to the current time in every call
EventScan_ToNow(ml, with_MAN, trim_time, k, now) ==
    LET tstart == ml[1].time
        tstop == now
        event_list == Find_Events_Between_Dates(tstart, tstop)
        done == Dispatch(event_list.events, 1, ml, with_MAN,
                         [trim_time |-> trim_time, k |-> k])
    IN  IF event_list.raised
        THEN [raised |-> TRUE, ml |-> ml, scan |-> << >>]
        ELSE [raised |-> done.raised, ml |-> done.ml,
              scan |-> << << tstart, tstop >> >>]

\* self.Find_Events_Between_Dates(self.master_list[0]['time'],
\*                                self.end_event_time) and the event loop
EventScan(ml, with_MAN, trim_time, k, now) ==
    LET tstart == ml[1].time
        tstop == SecsOf(end_event_time, now)
        event_list == Find_Events_Between_Dates(tstart, tstop)
        done == Dispatch(event_list.events, 1, ml, with_MAN,
                         [trim_time |-> trim_time, k |-> k])
    IN  IF event_list.raised
        THEN [raised |-> TRUE, ml |-> ml, scan |-> << >>]
        ELSE [raised |-> done.raised, ml |-> done.ml,
              scan |-> << << tstart, tstop >> >>]

\* a variant of NormalBody that trims the predecessor at the time of the
\* continuation's first command
NormalBody_Trimmed(cont_bs_cmds, rev_bs_cmds, k, now) ==
    IF rev_bs_cmds = << >> THEN Raised(master_list, << >>)
    ELSE LET Review_ToFC == rev_bs_cmds[1].time
             ml == SortByTime(Trim_bs_cmds_After_Date(AsSecs(Review_ToFC),
                                                     cont_bs_cmds)
                             \o rev_bs_cmds)
             ev == EventScan(ml, FALSE, Review_ToFC, k, now)
         IN  IF ev.raised THEN Raised(ev.ml, ev.scan)
             ELSE Returned(SortByTime(ev.ml), ev.scan)

NormalBody(cont_bs_cmds, rev_bs_cmds, k, now) ==
    IF rev_bs_cmds = << >> THEN Raised(master_list, << >>)
    ELSE LET Review_ToFC == rev_bs_cmds[1].time
             ml == SortByTime(cont_bs_cmds \o rev_bs_cmds)
             ev == EventScan(ml, FALSE, Review_ToFC, k, now)
         IN  IF ev.raised THEN Raised(ev.ml, ev.scan)
             ELSE Returned(SortByTime(ev.ml), ev.scan)

\* a variant of TOOBody that drops the predecessor's commands at the time
\* of the continuation's first command
TOOBody_DropTie(cont_bs_cmds, rev_bs_cmds, k, now) ==
    IF rev_bs_cmds = << >> THEN Raised(master_list, << >>)
    ELSE LET TOO_ToFC == rev_bs_cmds[1].time
             kept == SelectSeq(cont_bs_cmds,
                               LAMBDA cmd : cmd.time < rev_bs_cmds[1].time)
             ml == SortByTime(kept \o rev_bs_cmds)
             ev == EventScan(ml, FALSE, TOO_ToFC, k, now)
         IN  IF ev.raised THEN Raised(ev.ml, ev.scan)
             ELSE Returned(SortByTime(ev.ml), ev.scan)

TOOBody(cont_bs_cmds, rev_bs_cmds, k, now) ==
    IF rev_bs_cmds = << >> THEN Raised(master_list, << >>)
    ELSE LET TOO_ToFC == rev_bs_cmds[1].time
             kept == SelectSeq(cont_bs_cmds,
                               LAMBDA cmd : cmd.time <= rev_bs_cmds[1].time)
             ml == SortByTime(kept \o rev_bs_cmds)
             ev == EventScan(ml, FALSE, TOO_ToFC, k, now)
         IN  IF ev.raised THEN Raised(ev.ml, ev.scan)
             ELSE Returned(SortByTime(ev.ml), ev.scan)

\* a variant of STOPBody that keeps the command at the shutdown time
STOPBody_KeepAtShutdown(cont_bs_cmds, rev_bs_cmds, shutdown_date, k, now) ==
    IF rev_bs_cmds = << >> THEN Raised(master_list, << >>)
    ELSE LET STOP_time == DateTimeSecs(shutdown_date)
             trimmed == SelectSeq(cont_bs_cmds,
                                  LAMBDA cmd : cmd.time <= STOP_time)
             base_time == STOP_time
             ml == trimmed \o Scs107At(base_time, k)
             ev == EventScan(ml, TRUE, STOP_time, k, now)
             newlist == ev.ml \o rev_bs_cmds
         IN  IF ev.raised THEN Raised(ev.ml, ev.scan)
             ELSE Returned(SortByTime(newlist), ev.scan)

STOPBody(cont_bs_cmds, rev_bs_cmds, shutdown_date, k, now) ==
    IF rev_bs_cmds = << >> THEN Raised(master_list, << >>)
    ELSE LET STOP_time == DateTimeSecs(shutdown_date)
             trimmed == SelectSeq(cont_bs_cmds,
                                  LAMBDA cmd : cmd.time < STOP_time)
             base_time == STOP_time
             ml == trimmed \o Scs107At(base_time, k)
             ev == EventScan(ml, TRUE, STOP_time, k, now)
             newlist == ev.ml \o rev_bs_cmds
         IN  IF ev.raised THEN Raised(ev.ml, ev.scan)
             ELSE Returned(SortByTime(newlist), ev.scan)

S107Body(cont_bs_cmds, vo_bs_cmds, rev_bs_cmds, shutdown_date, k, now) ==
    IF rev_bs_cmds = << >> THEN Raised(master_list, << >>)
    ELSE LET S107_time == DateTimeSecs(shutdown_date)
             trimmed == SelectSeq(cont_bs_cmds,
                                  LAMBDA cmd : cmd.time < S107_time)
             vo_cut_date == trimmed[Len(trimmed)].date
             base_time == S107_time + TicksPerSec
             ml == trimmed \o Scs107At(base_time, k)
             ev == EventScan(ml, FALSE, S107_time, k, now)
             vo_bs_cmds_trimmed ==
                 Trim_bs_cmds_After_Date(AsSecs(rev_bs_cmds[1].time),
                     Trim_bs_cmds_Before_Date(AsDate(vo_cut_date),
                                              vo_bs_cmds))
             newlist == (ev.ml \o vo_bs_cmds_trimmed) \o rev_bs_cmds
         IN  IF trimmed = << >> THEN Raised(trimmed, << >>)
             ELSE IF ev.raised THEN Raised(ev.ml, ev.scan)
             ELSE Returned(SortByTime(newlist), ev.scan)

\* ------------------------------------------------------------------------
\* Load acquisition
\* ------------------------------------------------------------------------
\* globfile(pathglob) with nfiles files matching: the file, or IOError
\* a variant that takes the first match when several files match
globfile_First(nfiles) == IF nfiles >= 1 THEN "ok" ELSE "IOError"

globfile(nfiles) == IF nfiles = 1 THEN "ok" ELSE "IOError"

\* get_bs_cmds: after globfile the method appends bs_file_path, a name that
\* is not defined in its scope (the path is in backstop_file_path)
get_bs_cmds_outcome(nfiles) ==
    IF globfile(nfiles) # "ok" THEN "IOError" ELSE "NameError"

\* ------------------------------------------------------------------------
\* Inputs
\* ------------------------------------------------------------------------
\* The current time, DateTime(None).secs, at a call.  The log records
\* events that have happened: the current time is later than all its lines.
Now == MaxTime + 1

\* 'hh:mm:ss' fields of NUM_HOURS and pitch token of the model's NLET lines
NumHours == << 0, 0, 0, 2 * TicksPerSec >>
\* a token of a line split on spaces: a string, here one that reads as v
StrToken(v) == [kind |-> "str", v |-> v]

\* the pitch tokens of the model's MAN lines: '0.0' and '45.0'
Pitches == { StrToken(0), StrToken(45) }

\* the second token of a line: the events the Combine methods act on, a
\* legal event they do not act on (S107) and a power command that is not in
\* self.power_cmd_list (WSPOW0CF3F)
EventTypes == { "MAN", "LTCTI", "WSPOW0002A", "S107", "WSPOW0CF3F" }

\* the tokens that follow the type on a line of that type
EventArgs(type) ==
    IF type = "LTCTI" THEN { NumHours }
    ELSE IF type = "MAN" THEN Pitches ELSE { << >> }

NletLines ==
    { NletLine("#", 0, "", << >>), NletLine("GO", 0, "", << >>),
      NletLine("", 0, "", << >>) }
    \cup UNION { { NletLine("T", t, ty, a) : a \in EventArgs(ty) } :
                   t \in Time, ty \in EventTypes }

\* the log is appended to: its time stamps do not decrease
NletFiles(n) ==
    { l \in [1 .. n -> NletLines] :
        \A i, j \in 1 .. n :
            (i < j /\ l[i].tok0 = "T" /\ l[j].tok0 = "T")
                => l[i].date <= l[j].date }

Nlets ==
    { [exists |-> FALSE, lines |-> << >>] }
    \cup { [exists |-> TRUE, lines |-> l] :
             l \in UNION { NletFiles(n) : n \in 0 .. MaxLog } }

\* a script of the kind of 1_4_CTI.RTS
RtsStep(statement, mnemonic, delta) ==
    [c0 |-> "c", statement |-> statement, mnemonic |-> mnemonic,
     delta |-> delta]

NoDelta == [kind |-> "none", v |-> << >>]
HoursDelta == [kind |-> "hours", v |-> << >>]
LitDelta(ticks) == [kind |-> "lit", v |-> << 0, 0, ticks >>]

DefaultRts ==
    [exists |-> TRUE,
     steps |-> << RtsStep("ACIS", "WSVIDALLDN", LitDelta(TicksPerSec)),
                  RtsStep("ACIS", "AA00000000", HoursDelta) >>]

\* __init__ : self.load_list = []; self.backstop_list = [];
\* self.load_type_list = []
NoBackstopLists ==
    [load_list |-> << >>, backstop_list |-> << >>, load_type_list |-> << >>]

CallRec(op, cont, vo, rev, t, raised) ==
    [op |-> op, cont |-> cont, vo |-> vo, rev |-> rev, t |-> t,
     raised |-> raised]

\* ------------------------------------------------------------------------
\* Specification
\* ------------------------------------------------------------------------
Init ==
    /\ master_list = << >>
    /\ end_event_time = None
    /\ backstop_file_path_list = << >>
    /\ nlet \in Nlets
    /\ rts_file = DefaultRts
    /\ RTS = [SCS_NUM |-> SCS_NUM]
    /\ backstop_lists = NoBackstopLists
    /\ heap = TemplateObjects
    /\ call = CallRec("init", << >>, << >>, << >>, None, FALSE)
    /\ ret = << >>
    /\ scans = << >>
    /\ ncalls = 0

\* The call record keeps the arguments of a call when keep_args holds.
Publish(op, cont, vo, rev, t, out, keep_args) ==
    /\ master_list' = out.master_list
    /\ end_event_time' = out.end_event_time
    /\ ret' = IF out.raised THEN ret ELSE out.master_list
    /\ scans' = scans \o [i \in 1 .. Len(out.scan) |->
                            [tstart |-> out.scan[i][1],
                             tstop |-> out.scan[i][2],
                             returned |-> ~out.raised]]
    /\ call' = IF keep_args THEN CallRec(op, cont, vo, rev, t, out.raised)
               ELSE CallRec(op, << >>, << >>, << >>, None, out.raised)
    /\ ncalls' = ncalls + 1
    /\ UNCHANGED << backstop_lists, heap, backstop_file_path_list, nlet, rts_file, RTS >>

\* One call of each Combine method, the predecessor's times drawn from
\* Conts, the continuation list from Revs, the vehicle-only times from Vos.
NormalCall(Conts, Revs, keep_args) ==
    \E ct \in Conts, rev \in Revs :
        LET cont == LoadOf(ct, "cont", ncalls + 1)
        IN  Publish("CombineNormal", cont, << >>, rev, None,
                    NormalBody(cont, rev, ncalls + 1, Now),
                    keep_args)

TOOCall(Conts, Revs, keep_args) ==
    \E ct \in Conts, rev \in Revs :
        LET cont == LoadOf(ct, "cont", ncalls + 1)
        IN  Publish("CombineTOO", cont, << >>, rev, None,
                    TOOBody(cont, rev, ncalls + 1, Now),
                    keep_args)

STOPCall(Conts, Revs, keep_args) ==
    \E ct \in Conts, rev \in Revs, t \in Time :
        LET cont == LoadOf(ct, "cont", ncalls + 1)
        IN  Publish("CombineSTOP", cont, << >>, rev, t,
                    STOPBody(cont, rev, DateTimeDate(t), ncalls + 1, Now),
                    keep_args)

S107Call(Conts, Vos, Revs, keep_args) ==
    \E ct \in Conts, vt \in Vos, rev \in Revs, t \in Time :
        LET cont == LoadOf(ct, "cont", ncalls + 1)
            vo == LoadOf(vt, "vo", ncalls + 1)
        IN  Publish("Combine107", cont, vo, rev, t,
                    S107Body(cont, vo, rev, DateTimeDate(t), ncalls + 1, Now),
                    keep_args)

\* ---- chains of calls on one instance ----
\* The continuation list of a call is the list the previous call returned;
\* the first call gets the review load.
ChainRevs ==
    IF ret = << >>
    THEN { LoadOf(ts, "rev", ncalls + 1) : ts \in LoadTimes(ChainLen) }
    ELSE { ret }

CombineNormal ==
    ncalls < MaxCalls /\ NormalCall(LoadTimes(ChainLen), ChainRevs, FALSE)

CombineTOO ==
    ncalls < MaxCalls /\ TOOCall(LoadTimes(ChainLen), ChainRevs, FALSE)

CombineSTOP ==
    ncalls < MaxCalls /\ STOPCall(LoadTimes(ChainLen), ChainRevs, FALSE)

Combine107 ==
    ncalls < MaxCalls
    /\ S107Call(LoadTimes(ChainLen), LoadTimes(ChainLen), ChainRevs, FALSE)

\* get_bs_cmds(oflsdir) with nfiles files matching CR*.backstop in oflsdir;
\* the call record keeps nfiles and the exception the call ended with
get_bs_cmds ==
    /\ ncalls < MaxCalls
    /\ \E nfiles \in 0 .. 2 :
         /\ call' = CallRec("get_bs_cmds", << >>, << >>, << >>,
                            [nfiles |-> nfiles,
                             exception |-> get_bs_cmds_outcome(nfiles)],
                            TRUE)
         /\ ncalls' = ncalls + 1
         /\ UNCHANGED << backstop_lists, heap, master_list, end_event_time, backstop_file_path_list,
                         nlet, rts_file, RTS, ret, scans >>

\* get_vehicle_only_bs_cmds(oflsdir) with nfiles files matching
\* vehicle/VR*.backstop: it returns the commands of the file and its name to
\* the caller and keeps nothing on the instance
get_vehicle_only_bs_cmds ==
    /\ ncalls < MaxCalls
    /\ \E nfiles \in 0 .. 2 :
         /\ call' = CallRec("get_vehicle_only_bs_cmds", << >>, << >>, << >>,
                            [nfiles |-> nfiles,
                             exception |-> IF globfile(nfiles) = "ok"
                                           THEN "none" ELSE "IOError"],
                            globfile(nfiles) # "ok")
         /\ ncalls' = ncalls + 1
         /\ UNCHANGED << backstop_lists, heap, master_list, end_event_time, backstop_file_path_list,
                         nlet, rts_file, RTS, ret, scans >>

Next ==
    \/ CombineNormal
    \/ CombineTOO
    \/ CombineSTOP
    \/ Combine107
    \/ get_bs_cmds
    \/ get_vehicle_only_bs_cmds

Spec == Init /\ [][Next]_vars

\* ---- one call on a new instance ----
FirstRevs == { LoadOf(ts, "rev", 1) : ts \in LoadTimes(MaxLen) }

FirstNormal == ncalls = 0 /\ NormalCall(LoadTimes(MaxLen), FirstRevs, TRUE)

FirstTOO == ncalls = 0 /\ TOOCall(LoadTimes(MaxLen), FirstRevs, TRUE)

FirstSTOP == ncalls = 0 /\ STOPCall(LoadTimes(MaxLen), FirstRevs, TRUE)

First107 ==
    ncalls = 0 /\ S107Call(LoadTimes(MaxLen), LoadTimes(MaxVoLen), FirstRevs, TRUE)

NextCall == FirstNormal \/ FirstTOO \/ FirstSTOP \/ First107

SpecCall == Init /\ [][NextCall]_vars

\* ---- the trimming methods on a list of commands ----
TrimLists ==
    { LoadOf(ts, "cmds", 0) :
        ts \in UNION { [1 .. n -> Time] : n \in 0 .. MaxTrimLen } }

TrimDates ==
    { AsSecs(t) : t \in 0 .. MaxTime + 1 }
    \cup { AsDate(DateTimeDate(t)) : t \in 0 .. MaxTime + 1 }

\* the argument list and the cutoff of the call are in the call record
InitTrim ==
    /\ master_list = << >>
    /\ end_event_time = None
    /\ backstop_file_path_list = << >>
    /\ nlet = [exists |-> FALSE, lines |-> << >>]
    /\ rts_file = DefaultRts
    /\ RTS = [SCS_NUM |-> SCS_NUM]
    /\ backstop_lists = NoBackstopLists
    /\ heap = TemplateObjects
    /\ \E cmd_list \in TrimLists, trim_date \in TrimDates :
         call = CallRec("init", cmd_list, << >>, << >>, trim_date, FALSE)
    /\ ret = << >>
    /\ scans = << >>
    /\ ncalls = 0

TrimCall(op, trimmed_list) ==
    /\ ncalls = 0
    /\ ret' = trimmed_list
    /\ call' = [call EXCEPT !.op = op]
    /\ ncalls' = 1
    /\ UNCHANGED << backstop_lists, heap, master_list, end_event_time, backstop_file_path_list,
                    nlet, rts_file, RTS,
                    scans >>

TrimAfter ==
    TrimCall("Trim_bs_cmds_After_Date",
             Trim_bs_cmds_After_Date(call.t, call.cont))

TrimBefore ==
    TrimCall("Trim_bs_cmds_Before_Date",
             Trim_bs_cmds_Before_Date(call.t, call.cont))

NextTrim == TrimAfter \/ TrimBefore

SpecTrim == InitTrim /\ [][NextTrim]_vars

\* ---- Process_LTCTI on the CR*.backstop files of the loads ----
\* the lines of a CR*.backstop file that get_ACIS_backstop_cmds keeps, in
\* time order
BackstopLine(t, packet) ==
    [date |-> DateTimeDate(t), cmd_type |-> "ACISPKT", packet |-> packet]

BackstopFiles(maxlen) ==
    { [i \in 1 .. Len(ts) |-> BackstopLine(ts[i], pk[i])] :
        ts \in UNION { { s \in [1 .. n -> 0 .. 2 * MaxTime + 1] :
                           \A i \in 1 .. n - 1 : s[i] <= s[i + 1] } :
                       n \in 0 .. maxlen },
        pk \in [1 .. maxlen -> { "AA00000000", "WSPOW00000" }] }

\* no file, the review load's file, or it and the file of one continuity load
BackstopFileLists ==
    { << >> }
    \cup { << rev >> : rev \in BackstopFiles(MaxFileLen) }
    \cup { << rev, cont >> : rev \in BackstopFiles(MaxFileLen),
                             cont \in BackstopFiles(1) }

\* the LTCTI line of the NLET file and the trim time of the call are in the
\* call record
InitLTCTI ==
    /\ master_list = << >>
    /\ end_event_time = None
    /\ backstop_file_path_list \in BackstopFileLists
    /\ nlet = [exists |-> FALSE, lines |-> << >>]
    /\ rts_file = DefaultRts
    /\ RTS = [SCS_NUM |-> SCS_NUM]
    /\ backstop_lists = NoBackstopLists
    /\ heap = TemplateObjects
    /\ \E t \in Time, trim_time \in Time :
         call = CallRec("init", << >>, << >>, << >>,
                        [ltcti_event |-> [date |-> DateTimeDate(t),
                                          type |-> "LTCTI",
                                          arg |-> NumHours, n |-> 1],
                         trim_time |-> trim_time],
                        FALSE)
    /\ ret = << >>
    /\ scans = << >>
    /\ ncalls = 0

ProcessLTCTI ==
    /\ ncalls = 0
    /\ LET r == Process_LTCTI(call.t.ltcti_event, call.t.trim_time,
                              master_list, 1)
       IN  /\ master_list' = r.ml
           /\ call' = [call EXCEPT !.op = "Process_LTCTI",
                                   !.raised = r.raised]
    /\ ncalls' = 1
    /\ UNCHANGED << backstop_lists, heap, end_event_time, backstop_file_path_list, nlet, rts_file,
                    RTS, ret, scans >>

SpecLTCTI == InitLTCTI /\ [][ProcessLTCTI]_vars

\* ---- Find_Events_Between_Dates on an NLET file ----
\* NLET files with lines in any order
ScanLogs ==
    { [exists |-> FALSE, lines |-> << >>] }
    \cup { [exists |-> TRUE, lines |-> l] :
             l \in UNION { [1 .. n -> NletLines] : n \in 0 .. MaxScanLog } }

\* the bounds of the search are in the call record; tstop may be None
InitFind ==
    /\ master_list = << >>
    /\ end_event_time = None
    /\ backstop_file_path_list = << >>
    /\ nlet \in ScanLogs
    /\ rts_file = DefaultRts
    /\ RTS = [SCS_NUM |-> SCS_NUM]
    /\ backstop_lists = NoBackstopLists
    /\ heap = TemplateObjects
    /\ \E tstart \in 0 .. MaxTime, tstop \in { None } \cup 1 .. MaxTime :
         call = CallRec("init", << >>, << >>, << >>,
                        [tstart |-> tstart, tstop |-> tstop], FALSE)
    /\ ret = << >>
    /\ scans = << >>
    /\ ncalls = 0

FindEvents ==
    /\ ncalls = 0
    /\ LET event_list ==
               Find_Events_Between_Dates(call.t.tstart, SecsOf(call.t.tstop, Now))
       IN  /\ ret' = event_list.events
           /\ call' = [call EXCEPT !.op = "Find_Events_Between_Dates",
                                   !.raised = event_list.raised]
    /\ ncalls' = 1
    /\ UNCHANGED << backstop_lists, heap, master_list, end_event_time, backstop_file_path_list,
                    nlet, rts_file, RTS, scans >>

SpecFind == InitFind /\ [][FindEvents]_vars

\* The expander on its own: an LTCTI_RTS instance, the RTS file of its run
\* name, and calls of processRTS followed by convert_ACIS_RTS_to_ska_parse
\* with calls of parse_FOT_request in between.  ret is the list of the
\* expansions made: the arguments, the array processRTS returned and the
\* list convert_ACIS_RTS_to_ska_parse returned.
RtsDeltas == { NoDelta, HoursDelta, LitDelta(1), LitDelta(-1) }

RtsLines ==
    { [c0 |-> "!", statement |-> "None", mnemonic |-> "", delta |-> NoDelta],
      [c0 |-> "", statement |-> "None", mnemonic |-> "", delta |-> NoDelta] }
    \cup { RtsStep("/CMD", "OORMPEN", d) : d \in RtsDeltas }
    \cup { RtsStep("ACIS", "WSVIDALLDN", d) : d \in RtsDeltas }
    \cup { RtsStep("None", "", d) : d \in RtsDeltas }

RtsFiles ==
    { [exists |-> FALSE, steps |-> << >>] }
    \cup { [exists |-> TRUE, steps |-> l] :
             l \in UNION { [1 .. n -> RtsLines] : n \in 0 .. MaxRtsLen } }

\* the SCS_NUM= values of the FOT requests and of the callers
SCSNums == { SCS_NUM, SCS_NUM - 1 }

InitRTS ==
    /\ master_list = << >>
    /\ end_event_time = None
    /\ backstop_file_path_list = << >>
    /\ nlet = [exists |-> FALSE, lines |-> << >>]
    /\ rts_file \in RtsFiles
    /\ RTS = [SCS_NUM |-> SCS_NUM]
    /\ backstop_lists = NoBackstopLists
    /\ heap = TemplateObjects
    /\ call = CallRec("init", << >>, << >>, << >>, << >>, FALSE)
    /\ ret = << >>
    /\ scans = << >>
    /\ ncalls = 0

\* sets self.SCS_NUM (and load_type, RTS_name and NUM_HOURS, which the
\* expansion takes as arguments) from the RTSLOAD line of the request
parse_FOT_request ==
    /\ ncalls < MaxRtsCalls
    /\ \E scs \in SCSNums : RTS' = [RTS EXCEPT !.SCS_NUM = scs]
    /\ call' = CallRec("parse_FOT_request", << >>, << >>, << >>, << >>, FALSE)
    /\ ncalls' = ncalls + 1
    /\ UNCHANGED << backstop_lists, heap, master_list, end_event_time, backstop_file_path_list,
                    nlet, rts_file, ret, scans >>

\* processed_commands = RTS.processRTS(RTS_name, SCS_NUM, NUM_HOURS,
\* RTS_start_date); ska_cmds = RTS.convert_ACIS_RTS_to_ska_parse(...)
Expand ==
    /\ ncalls < MaxRtsCalls
    /\ \E scs \in SCSNums, start \in 0 .. 1 :
         LET args == [SCS_NUM |-> scs, NUM_HOURS |-> NumHours,
                      RTS_start_date |-> DateTimeDate(start)]
             processed_commands ==
                 processRTS(scs, NumHours, DateTimeDate(start))
             ska_cmds ==
                 convert_ACIS_RTS_to_ska_parse(processed_commands.cmds)
             raised == processed_commands.raised \/ ska_cmds.raised
         IN  /\ ret' = Append(ret, [args |-> args, raised |-> raised,
                                    processed_commands |->
                                        processed_commands.cmds,
                                    ska_cmds |-> ska_cmds.cmds])
             /\ call' = CallRec("processRTS", << >>, << >>, << >>, args,
                                raised)
    /\ ncalls' = ncalls + 1
    /\ UNCHANGED << backstop_lists, heap, master_list, end_event_time, backstop_file_path_list,
                    nlet, rts_file, RTS, scans >>

NextRTS == parse_FOT_request \/ Expand

SpecRTS == InitRTS /\ [][NextRTS]_vars

\* The chain walker on its own.  A load directory <root>/<year>/<week>/ofls is
\* represented by its week; the continuity files of the directories, the
\* arguments of the call and the local variables of the running call are in
\* the call record, and ret is the array returned.
Weeks == 1 .. NumLoads

OflsDir(week) == [week |-> week, dir |-> "ofls"]

\* None where a path is expected
NonePath == [week |-> None, dir |-> ""]

\* os.path.split(path)[-2]: the path without its last component
PathHead(path) == [head_of |-> path]

\* path.split('/')[-2]: the component before the last
WeekOf(path) == path.week

\* ACIS-Continuity.txt of a directory: none, or the directory of the
\* continuity load, the type of the load and, if it is not Normal, its
\* time of first command
NoContinuityFile == [exists |-> FALSE]

ContinuityFiles ==
    { NoContinuityFile }
    \cup { [exists |-> TRUE, path |-> OflsDir(w), type |-> "Normal",
            tofc |-> "" ] : w \in Weeks }
    \cup { [exists |-> TRUE, path |-> OflsDir(w), type |-> "TOO",
            tofc |-> "2017:242:23:35:01.28" ] : w \in Weeks }

get_continuity_file_info(cont_files, oflsdir) ==
    LET f == cont_files[WeekOf(oflsdir)]
    IN  IF f.exists
        THEN << f.path, f.type, IF f.type = "Normal" THEN None ELSE f.tofc >>
        ELSE << NonePath, None, None >>

\* a variant of the loop test that compares with <=
ChainGoesOn_Inclusive(load_chain, chain_length, continuity_info) ==
    Len(load_chain) <= chain_length /\ continuity_info[1] # NonePath

\* while len(load_chain) < chain_length and continuity_info[0] is not None
ChainGoesOn(load_chain, chain_length, continuity_info) ==
    Len(load_chain) < chain_length /\ continuity_info[1] # NonePath

InitBackChain ==
    /\ master_list = << >>
    /\ end_event_time = None
    /\ backstop_file_path_list = << >>
    /\ nlet = [exists |-> FALSE, lines |-> << >>]
    /\ rts_file = DefaultRts
    /\ RTS = [SCS_NUM |-> SCS_NUM]
    /\ backstop_lists = NoBackstopLists
    /\ heap = TemplateObjects
    /\ \E cont_files \in [Weeks -> ContinuityFiles], w \in Weeks,
          chain_length \in 0 .. MaxChainLength :
         call = CallRec("init", << >>, << >>, << >>,
                        [cont_files |-> cont_files,
                         base_load_dir |-> OflsDir(w),
                         chain_length |-> chain_length,
                         pc |-> "start",
                         load_chain |-> << >>,
                         base_load_week |-> None,
                         continuity_info |-> << NonePath, None, None >>],
                        FALSE)
    /\ ret = << >>
    /\ scans = << >>
    /\ ncalls = 0

\* the statements of BackChain before its loop
BackChainStart ==
    /\ call.t.pc = "start"
    /\ call' = [call EXCEPT
                  !.op = "BackChain",
                  !.t.pc = "loop",
                  !.t.base_load_week = PathHead(call.t.base_load_dir),
                  !.t.continuity_info =
                      get_continuity_file_info(call.t.cont_files,
                                               call.t.base_load_dir)]
    /\ UNCHANGED << backstop_lists, heap, master_list, end_event_time, backstop_file_path_list,
                    nlet, rts_file, RTS, ret, scans, ncalls >>

\* one pass through the body of the loop
BackChainLoop ==
    /\ call.t.pc = "loop"
    /\ ChainGoesOn(call.t.load_chain, call.t.chain_length,
                   call.t.continuity_info)
    /\ LET continuity_load_path == call.t.continuity_info[1]
       IN  call' = [call EXCEPT
                      !.t.load_chain =
                          Append(@, [base_load |-> call.t.base_load_week,
                                     cont_file |-> continuity_load_path,
                                     load_type |-> call.t.continuity_info[2],
                                     load_tofc |-> call.t.continuity_info[3]]),
                      !.t.base_load_week = WeekOf(continuity_load_path),
                      !.t.continuity_info =
                          get_continuity_file_info(call.t.cont_files,
                                                   continuity_load_path)]
    /\ UNCHANGED << backstop_lists, heap, master_list, end_event_time, backstop_file_path_list,
                    nlet, rts_file, RTS, ret, scans, ncalls >>

\* the loop test fails: return load_chain
BackChainReturn ==
    /\ call.t.pc = "loop"
    /\ ~ChainGoesOn(call.t.load_chain, call.t.chain_length,
                    call.t.continuity_info)
    /\ ret' = call.t.load_chain
    /\ call' = [call EXCEPT !.t.pc = "done"]
    /\ ncalls' = ncalls + 1
    /\ UNCHANGED << backstop_lists, heap, master_list, end_event_time, backstop_file_path_list,
                    nlet, rts_file, RTS, scans >>

NextBackChain == BackChainStart \/ BackChainLoop \/ BackChainReturn

\* the call runs in one thread: a statement that can execute does
SpecBackChain ==
    InitBackChain /\ [][NextBackChain]_vars /\ WF_vars(NextBackChain)

\* The synthesizer's use of the templates, dict by dict: master_list holds
\* the addresses of the command dicts appended.
InitTemplates ==
    /\ master_list = << >>
    /\ end_event_time = None
    /\ backstop_file_path_list = << >>
    /\ nlet = [exists |-> FALSE, lines |-> << >>]
    /\ rts_file = DefaultRts
    /\ RTS = [SCS_NUM |-> SCS_NUM]
    /\ backstop_lists = NoBackstopLists
    /\ heap = TemplateObjects
    /\ call = CallRec("init", << >>, << >>, << >>, None, FALSE)
    /\ ret = << >>
    /\ scans = << >>
    /\ ncalls = 0

\* Process_MAN of a line with quaternion q and a pitch that is not zero
Process_MAN_Dicts ==
    /\ ncalls < MaxSynthCalls
    /\ \E t \in 0 .. 1, q \in 1 .. 2 :
         LET new_maneuver == deepcopy(heap, MAN_ref)
             h1 == SetDateTime(new_maneuver.heap, new_maneuver.ref, t)
             h2 == [h1 EXCEPT ![h1[new_maneuver.ref].params].Q = q]
             aoman == deepcopy(h2, AOMANUVR_ref)
             h3 == SetDateTime(aoman.heap, aoman.ref, t + TicksPerSec)
         IN  /\ heap' = h3
             /\ master_list' = master_list
                                 \o << [ref |-> new_maneuver.ref],
                                       [ref |-> aoman.ref] >>
    /\ call' = CallRec("Process_MAN", << >>, << >>, << >>, None, FALSE)
    /\ ncalls' = ncalls + 1
    /\ UNCHANGED << backstop_lists, end_event_time, backstop_file_path_list,
                    nlet, rts_file, RTS, ret, scans >>

Process_Power_Cmd_Dicts ==
    /\ ncalls < MaxSynthCalls
    /\ \E t \in 0 .. 1, name \in power_cmd_list :
         LET new_pwr_cmd == deepcopy(heap, PowerRef(name))
         IN  /\ heap' = SetDateTime(new_pwr_cmd.heap, new_pwr_cmd.ref, t)
             /\ master_list' = Append(master_list, [ref |-> new_pwr_cmd.ref])
    /\ call' = CallRec("Process_Power_Cmd", << >>, << >>, << >>, None, FALSE)
    /\ ncalls' = ncalls + 1
    /\ UNCHANGED << backstop_lists, end_event_time, backstop_file_path_list,
                    nlet, rts_file, RTS, ret, scans >>

\* the SCS-107 commands of CombineSTOP (base_time is the shutdown time) and
\* of Combine107 (the shutdown time + 1 s)
Safing_Dicts ==
    /\ ncalls < MaxSynthCalls
    /\ \E t \in 0 .. 1, op \in { "CombineSTOP", "Combine107" } :
         LET scs107_copy == deepcopy_list(heap, scs107_refs)
             base_time == IF op = "CombineSTOP" THEN t ELSE t + TicksPerSec
         IN  /\ heap' = StampFrom(scs107_copy.heap, scs107_copy.refs, 1,
                                  base_time)
             /\ master_list' = master_list
                                 \o [i \in 1 .. Len(scs107_copy.refs) |->
                                        [ref |-> scs107_copy.refs[i]]]
             /\ call' = CallRec(op, << >>, << >>, << >>, None, FALSE)
    /\ ncalls' = ncalls + 1
    /\ UNCHANGED << backstop_lists, end_event_time, backstop_file_path_list,
                    nlet, rts_file, RTS, ret, scans >>

NextTemplates == Process_MAN_Dicts \/ Process_Power_Cmd_Dicts \/ Safing_Dicts

SpecTemplates == InitTemplates /\ [][NextTemplates]_vars

\* ------------------------------------------------------------------------
\* The Combinator's lists as Python objects
\* ------------------------------------------------------------------------
\* heap is here the sequence of the list objects made so far, a list's
\* address its position; master_list and ret hold an address.

\* a new list object holding items: a list comprehension, or a list the
\* caller built
Alloc(h, items) == [heap |-> Append(h, items), ref |-> Len(h) + 1]

\* a variant of Concat that extends the left list and gives it back (a += b)
Concat_InPlace(h, a, b) ==
    [heap |-> [h EXCEPT ![a] = h[a] \o h[b]], ref |-> a]

\* a + b : a new list object
Concat(h, a, b) == [heap |-> Append(h, h[a] \o h[b]), ref |-> Len(h) + 1]

\* sorted(a, key=lambda k: k['time']) : a new list object
Sorted(h, a) == [heap |-> Append(h, SortByTime(h[a])), ref |-> Len(h) + 1]

\* a += items, a.append(item) : the object at a is edited in place
Extend(h, a, items) == [h EXCEPT ![a] = h[a] \o items]

\* what the event loop appended to ml to give out
Appended(ml, out) == SubSeq(out, Len(ml) + 1, Len(out))

ListsRaised(h, a) ==
    [raised |-> TRUE, heap |-> h, ref |-> a,
     end_event_time |-> end_event_time]

ListsReturned(r) ==
    [raised |-> FALSE, heap |-> r.heap, ref |-> r.ref,
     end_event_time |-> r.heap[r.ref][1].time]

\* __init__ : self.master_list = []
InitLists ==
    /\ backstop_lists = NoBackstopLists
    /\ heap = << << >> >>
    /\ master_list = [ref |-> 1]
    /\ end_event_time = None
    /\ backstop_file_path_list = << >>
    /\ nlet \in Nlets
    /\ rts_file = DefaultRts
    /\ RTS = [SCS_NUM |-> SCS_NUM]
    /\ call = CallRec("init", None, None, None, None, FALSE)
    /\ ret = [ref |-> None]
    /\ scans = << >>
    /\ ncalls = 0

\* The caller's lists of one call: the predecessor list and, for Combine107,
\* the vehicle-only list are read from files; the continuation is the review
\* load in the first call and the list the previous call returned after it.
CallerLists(ct, vt, rt, with_vo) ==
    LET own == ret.ref # None
        cont == Alloc(heap, LoadOf(ct, "cont", ncalls + 1))
        vo == IF with_vo THEN Alloc(cont.heap, LoadOf(vt, "vo", ncalls + 1))
              ELSE [heap |-> cont.heap, ref |-> None]
        rev == IF own THEN [heap |-> vo.heap, ref |-> ret.ref]
               ELSE Alloc(vo.heap, LoadOf(rt, "rev", ncalls + 1))
    IN  [heap |-> rev.heap, cont |-> cont.ref, vo |-> vo.ref,
         rev |-> rev.ref, own |-> own]

\* the times of the commands of a list the caller read from a file
ListTimes == { << >> } \cup { << t >> : t \in 1 .. MaxListTime }

CallerChoices(with_vo) ==
    { CallerLists(ct, vt, rt, with_vo) :
        ct \in ListTimes,
        vt \in IF with_vo THEN ListTimes ELSE { << >> },
        rt \in IF ret.ref # None THEN { << >> } ELSE ListTimes }

PublishLists(op, args, out) ==
    /\ heap' = out.heap
    /\ master_list' = [ref |-> out.ref]
    /\ end_event_time' = out.end_event_time
    /\ ret' = IF out.raised THEN ret ELSE [ref |-> out.ref]
    /\ call' = CallRec(op, args.cont, args.vo, args.rev,
                       [before |-> args.heap, own |-> args.own], out.raised)
    /\ ncalls' = ncalls + 1
    /\ UNCHANGED << backstop_lists, backstop_file_path_list, nlet, rts_file,
                    RTS, scans >>

\* Each method below is written statement by statement; a name bound by \E
\* to the one element of a set is a local variable of the method.

\* the shutdown_date argument of CombineSTOP and Combine107
ShutdownDates == { DateTimeDate(t) : t \in Time }

\* the event search and loop on the master list at address a; the commands
\* the loop makes are appended to that list in place
ScanLists(h, a, with_MAN, trim_time) ==
    { [raised |-> ev.raised, heap |-> Extend(h, a, Appended(h[a], ev.ml))] :
        ev \in { EventScan(h[a], with_MAN, trim_time, ncalls + 1, Now) } }

CombineNormalLists ==
    /\ ncalls < MaxListCalls
    /\ \E args \in CallerChoices(FALSE) :
         IF args.heap[args.rev] = << >>
         THEN PublishLists("CombineNormal", args,
                           ListsRaised(args.heap, master_list.ref))
         ELSE \E sum \in { Concat(args.heap, args.cont, args.rev) } :
              \E srt \in { Sorted(sum.heap, sum.ref) } :
              \E ev \in ScanLists(srt.heap, srt.ref, FALSE,
                                  args.heap[args.rev][1].time) :
                PublishLists("CombineNormal", args,
                             IF ev.raised THEN ListsRaised(ev.heap, srt.ref)
                             ELSE ListsReturned(Sorted(ev.heap, srt.ref)))

CombineTOOLists ==
    /\ ncalls < MaxListCalls
    /\ \E args \in CallerChoices(FALSE) :
         IF args.heap[args.rev] = << >>
         THEN PublishLists("CombineTOO", args,
                           ListsRaised(args.heap, master_list.ref))
         ELSE \E kept \in { Alloc(args.heap,
                                  SelectSeq(args.heap[args.cont],
                                      LAMBDA cmd : cmd.time
                                          <= args.heap[args.rev][1].time)) } :
              \E sum \in { Concat(kept.heap, kept.ref, args.rev) } :
              \E srt \in { Sorted(sum.heap, sum.ref) } :
              \E ev \in ScanLists(srt.heap, srt.ref, FALSE,
                                  args.heap[args.rev][1].time) :
                PublishLists("CombineTOO", args,
                             IF ev.raised THEN ListsRaised(ev.heap, srt.ref)
                             ELSE ListsReturned(Sorted(ev.heap, srt.ref)))

CombineSTOPLists ==
    /\ ncalls < MaxListCalls
    /\ \E args \in CallerChoices(FALSE), shutdown_date \in ShutdownDates :
         \E STOP_time \in { DateTimeSecs(shutdown_date) } :
         IF args.heap[args.rev] = << >>
         THEN PublishLists("CombineSTOP", args,
                           ListsRaised(args.heap, master_list.ref))
         ELSE \E trimmed \in { Alloc(args.heap,
                                     SelectSeq(args.heap[args.cont],
                                         LAMBDA cmd : cmd.time < STOP_time)) } :
              \E h1 \in { Extend(trimmed.heap, trimmed.ref,
                                 Scs107At(STOP_time, ncalls + 1)) } :
              \E ev \in ScanLists(h1, trimmed.ref, TRUE, STOP_time) :
              \E newlist \in { Concat(ev.heap, trimmed.ref, args.rev) } :
                PublishLists("CombineSTOP", args,
                             IF ev.raised
                             THEN ListsRaised(ev.heap, trimmed.ref)
                             ELSE ListsReturned(Sorted(newlist.heap,
                                                       newlist.ref)))

\* Combine107 after the event loop: the vehicle-only commands from
\* vo_cut_date up to the continuation's first command are appended to the
\* master list at address a, then newlist = self.master_list + rev_bs_cmds
VehicleOnlyLists(h2, a, vo, rev, vo_cut_date) ==
    { Concat(Extend(vo_bs_cmds_trimmed.heap, a,
                    vo_bs_cmds_trimmed.heap[vo_bs_cmds_trimmed.ref]),
             a, rev) :
        vo_bs_cmds_trimmed \in
            { Alloc(before.heap,
                    Trim_bs_cmds_After_Date(AsSecs(h2[rev][1].time),
                                            before.heap[before.ref])) :
                before \in
                    { Alloc(h2, Trim_bs_cmds_Before_Date(AsDate(vo_cut_date),
                                                         h2[vo])) } } }

Combine107Lists ==
    /\ ncalls < MaxListCalls
    /\ \E args \in CallerChoices(TRUE), shutdown_date \in ShutdownDates :
         \E S107_time \in { DateTimeSecs(shutdown_date) } :
         \E trimmed \in { Alloc(args.heap,
                                SelectSeq(args.heap[args.cont],
                                    LAMBDA cmd : cmd.time < S107_time)) } :
         \E kept \in { trimmed.heap[trimmed.ref] } :
           IF args.heap[args.rev] = << >>
           THEN PublishLists("Combine107", args,
                             ListsRaised(args.heap, master_list.ref))
           ELSE IF kept = << >>
           THEN PublishLists("Combine107", args,
                             ListsRaised(trimmed.heap, trimmed.ref))
           ELSE \E h1 \in { Extend(trimmed.heap, trimmed.ref,
                                   Scs107At(S107_time + TicksPerSec,
                                            ncalls + 1)) } :
                \E ev \in ScanLists(h1, trimmed.ref, FALSE, S107_time) :
                  IF ev.raised
                  THEN PublishLists("Combine107", args,
                                    ListsRaised(ev.heap, trimmed.ref))
                  ELSE \E newlist \in
                           VehicleOnlyLists(ev.heap, trimmed.ref, args.vo,
                                            args.rev, kept[Len(kept)].date) :
                         PublishLists("Combine107", args,
                                      ListsReturned(Sorted(newlist.heap,
                                                           newlist.ref)))

NextLists ==
    CombineNormalLists \/ CombineTOOLists \/ CombineSTOPLists
        \/ Combine107Lists

SpecLists == InitLists /\ [][NextLists]_vars

\* ------------------------------------------------------------------------
\* One instance used for more than one history
\* ------------------------------------------------------------------------
\* The call record of this specification keeps, in t: cleared, whether
\* clear_backstop_lists was called since the last Combine call; first, the
\* arguments and the result of the call made on the new instance.
NoFirst == [done |-> FALSE, cont |-> << >>, rev |-> << >>, ret |-> << >>]

InitReuse ==
    /\ master_list = << >>
    /\ end_event_time = None
    /\ backstop_file_path_list = << >>
    /\ nlet \in Nlets
    /\ rts_file = DefaultRts
    /\ RTS = [SCS_NUM |-> SCS_NUM]
    /\ backstop_lists = NoBackstopLists
    /\ heap = TemplateObjects
    /\ call = CallRec("init", << >>, << >>, << >>,
                      [cleared |-> FALSE, after_clear |-> FALSE,
                       first |-> NoFirst], FALSE)
    /\ ret = << >>
    /\ scans = << >>
    /\ ncalls = 0

\* names of load weeks, backstop files and load types
ListNames == { None, 1 }

set_backstop_lists ==
    /\ Len(backstop_lists.load_list) < MaxLog
    /\ Len(backstop_lists.backstop_list) < MaxLog
    /\ Len(backstop_lists.load_type_list) < MaxLog
    /\ \E load_week \in ListNames, backstop_name \in ListNames,
          load_type \in ListNames :
         backstop_lists' =
             [load_list |->
                  IF load_week # None
                  THEN << load_week >> \o backstop_lists.load_list
                  ELSE backstop_lists.load_list,
              backstop_list |->
                  IF backstop_name # None
                  THEN << backstop_name >> \o backstop_lists.backstop_list
                  ELSE backstop_lists.backstop_list,
              load_type_list |->
                  IF load_type # None
                  THEN << load_type >> \o backstop_lists.load_type_list
                  ELSE backstop_lists.load_type_list]
    /\ call' = [call EXCEPT !.op = "set_backstop_lists", !.raised = FALSE]
    /\ UNCHANGED << master_list, end_event_time, backstop_file_path_list,
                    nlet, rts_file, RTS, heap, ret, scans, ncalls >>

clear_backstop_lists ==
    /\ backstop_lists' = NoBackstopLists
    /\ call' = [call EXCEPT !.op = "clear_backstop_lists", !.raised = FALSE,
                            !.t.cleared = TRUE]
    /\ UNCHANGED << master_list, end_event_time, backstop_file_path_list,
                    nlet, rts_file, RTS, heap, ret, scans, ncalls >>

\* CombineNormal as the call that assembles a history
ReuseCombineNormal ==
    /\ ncalls < MaxReuseCalls
    /\ \E ct \in ListTimes, rt \in ListTimes :
         \E cont \in { LoadOf(ct, "cont", ncalls + 1) },
            rev \in { LoadOf(rt, "rev", ncalls + 1) } :
           \E out \in { NormalBody(cont, rev, ncalls + 1, Now) } :
             /\ master_list' = out.master_list
             /\ end_event_time' = out.end_event_time
             /\ ret' = IF out.raised THEN ret ELSE out.master_list
             /\ scans' = scans \o [i \in 1 .. Len(out.scan) |->
                                     [tstart |-> out.scan[i][1],
                                      tstop |-> out.scan[i][2],
                                      returned |-> ~out.raised]]
             /\ call' = CallRec("CombineNormal", cont, << >>, rev,
                                [cleared |-> FALSE,
                                 after_clear |-> call.t.cleared,
                                 first |-> IF ncalls = 0 /\ ~out.raised
                                           THEN [done |-> TRUE, cont |-> cont,
                                                 rev |-> rev,
                                                 ret |-> out.master_list]
                                           ELSE call.t.first],
                                out.raised)
    /\ ncalls' = ncalls + 1
    /\ UNCHANGED << backstop_lists, heap, backstop_file_path_list, nlet,
                    rts_file, RTS >>

NextReuse == set_backstop_lists \/ clear_backstop_lists \/ ReuseCombineNormal

SpecReuse == InitReuse /\ [][NextReuse]_vars

\* ------------------------------------------------------------------------
\* Properties
\* ------------------------------------------------------------------------
CombineOps == { "CombineNormal", "CombineTOO", "CombineSTOP", "Combine107" }

\* the last call was a Combine method and it returned normally
CombineReturned == call.op \in CombineOps /\ ~call.raised

Range(s) == { s[i] : i \in 1 .. Len(s) }

\* the number of positions of s that hold x
Count(x, s) == Cardinality({ i \in 1 .. Len(s) : s[i] = x })

\* C1: after every Combine call that returns normally, also one chained on
\* earlier calls of the same instance, the returned list and self.master_list
\* are the same list and it is sorted in non-decreasing order of time.
C1_ReturnedListIsSortedMaster ==
    /\ IsSorted(ret)
    /\ CombineReturned => (ret = master_list /\ IsSorted(master_list))

\* a second, chained call returned a list that holds commands of both calls
\* and an event command, at more than one time
C1_Witness ==
    /\ ncalls = 2 /\ CombineReturned
    /\ \E i, j, l \in 1 .. Len(master_list) :
         /\ master_list[i].call = 1 /\ master_list[j].call = 2
         /\ master_list[l].ev > 0
         /\ master_list[i].time # master_list[j].time

\* the last call was a CombineSTOP that returned normally
STOPReturned == call.op = "CombineSTOP" /\ ~call.raised

\* s[i1..i4] are the four safing commands of the SCS-107 template, in order
IsSafingSeq(s, i1, i2, i3, i4) ==
    /\ i1 < i2 /\ i2 < i3 /\ i3 < i4
    /\ \A i \in { i1, i2, i3, i4 } : s[i].src = "scs107"
    /\ s[i1].cmd = "SIMTRANS"
    /\ s[i2].cmd = "ACISPKT" /\ s[i2].tlmsid = "AA00000000"
    /\ s[i3].cmd = "ACISPKT" /\ s[i3].tlmsid = "AA00000000"
    /\ s[i4].cmd = "ACISPKT" /\ s[i4].tlmsid = "WSPOW00000"

\* C2: after CombineSTOP no command of the predecessor list with a time at
\* or after the shutdown time is in the output, and the output holds the four
\* safing commands SIMTRANS, AA00000000, AA00000000, WSPOW00000 in that
\* order with strictly increasing times, the first at or after the shutdown.
C2_STOPTrimsAndAddsSafing ==
    STOPReturned =>
        /\ \A j \in 1 .. Len(call.cont) :
             call.cont[j].time >= call.t => call.cont[j] \notin Range(ret)
        /\ \E i1, i2, i3, i4 \in 1 .. Len(ret) :
             /\ IsSafingSeq(ret, i1, i2, i3, i4)
             /\ ret[i1].time < ret[i2].time
             /\ ret[i2].time < ret[i3].time
             /\ ret[i3].time < ret[i4].time
             /\ ret[i1].time >= call.t

\* a CombineSTOP whose predecessor has a command before the shutdown and one
\* scheduled exactly at it, with an event command in the output
C2_Witness ==
    /\ STOPReturned
    /\ \E i, j \in 1 .. Len(call.cont) :
         call.cont[i].time < call.t /\ call.cont[j].time = call.t
    /\ \E l \in 1 .. Len(ret) : ret[l].ev > 0

\* the last call was a CombineTOO that returned normally
TOOReturned == call.op = "CombineTOO" /\ ~call.raised

TimesOf(s) == [i \in 1 .. Len(s) |-> s[i].time]

Secs(s) == [i \in 1 .. Len(s) |-> s[i] * TicksPerSec]

\* CombineTOO on a predecessor at 90, 95, 99 s and a continuation at 96,
\* 101 s, called in the current state
TOOExample ==
    TOOBody(LoadOf(Secs(<< 90, 95, 99 >>), "cont", 1),
            LoadOf(Secs(<< 96, 101 >>), "rev", 1), 1, Now)

\* C3: CombineTOO keeps a command of the predecessor exactly when its time
\* is at or before the time of the continuation's first command, and keeps
\* every command of the continuation; at a tie both sides are kept.  A
\* predecessor at 90, 95, 99 and a continuation at 96, 101 give
\* 90, 95, 96, 101.
C3_TOOKeepsUpToFirstCommand ==
    /\ TOOReturned =>
         /\ \A j \in 1 .. Len(call.cont) :
              Count(call.cont[j], ret) =
                  IF call.cont[j].time <= call.rev[1].time THEN 1 ELSE 0
         /\ \A j \in 1 .. Len(call.rev) : Count(call.rev[j], ret) = 1
    /\ ~TOOExample.raised =>
         TimesOf(TOOExample.master_list) = Secs(<< 90, 95, 96, 101 >>)

\* a CombineTOO whose predecessor has a command at the time of the
\* continuation's first command and a later one, in a state where the call
\* of the example returns
C3_Witness ==
    /\ TOOReturned
    /\ \E i, j \in 1 .. Len(call.cont) :
         /\ call.cont[i].time = call.rev[1].time
         /\ call.cont[j].time > call.rev[1].time
    /\ ~TOOExample.raised

\* the position in s of x, an element of s that occurs once
Pos(x, s) == CHOOSE j \in 1 .. Len(s) : s[j] = x

\* r holds, once each and in the order of s, the elements of s that satisfy
\* P, and nothing else
IsSubseqWhere(r, s, P(_)) ==
    /\ \A j \in 1 .. Len(s) : Count(s[j], r) = IF P(s[j]) THEN 1 ELSE 0
    /\ \A a \in 1 .. Len(r) : r[a] \in Range(s)
    /\ \A a, b \in 1 .. Len(r) : a < b => Pos(r[a], s) < Pos(r[b], s)

NormalReturned == call.op = "CombineNormal" /\ ~call.raised

\* the NLET file has no event line with a time inside the window w
WindowIsEmpty(w) ==
    \A i \in 1 .. Len(nlet.lines) :
        LET l == nlet.lines[i]
        IN  l.tok0 = "T" =>
                ~(w.tstart < DateTimeSecs(l.date) /\ DateTimeSecs(l.date) < w.tstop)

\* C5: CombineNormal trims nothing: every command of the predecessor and
\* every command of the continuation is in the output, as often as in the
\* inputs; when no event lies in the window searched, the output is a sorted
\* permutation of the predecessor followed by the continuation.
C5_NormalKeepsEveryCommand ==
    NormalReturned =>
        LET both == call.cont \o call.rev
        IN  /\ \A j \in 1 .. Len(both) : Count(both[j], ret) = Count(both[j], both)
            /\ WindowIsEmpty(scans[1]) =>
                 /\ Len(ret) = Len(both)
                 /\ IsSorted(ret)

\* a CombineNormal of two loads that overlap in time, with an event line in
\* the NLET file but none inside the window searched
C5_Witness ==
    /\ NormalReturned
    /\ \E j \in 1 .. Len(call.cont) : call.cont[j].time > call.rev[1].time
    /\ \E i \in 1 .. Len(nlet.lines) :
         nlet.lines[i].tok0 = "T" /\ nlet.lines[i].type \in power_cmd_list
    /\ WindowIsEmpty(scans[1])

\* the last call was a Combine107 that returned normally
S107Returned == call.op = "Combine107" /\ ~call.raised

\* the four safing commands are in s, the k-th of them (k = 0 .. 3) stamped
\* first + k seconds, in time and in date
SafingStampedFrom(s, first) ==
    /\ \A k \in 0 .. 3 :
         \E i \in 1 .. Len(s) : s[i].src = "scs107" /\ s[i].idx = k + 1
    /\ \A i \in 1 .. Len(s) :
         s[i].src = "scs107" =>
             /\ s[i].time = first + (s[i].idx - 1) * TicksPerSec
             /\ s[i].date = DateTimeDate(s[i].time)

C7_CursorIsFirstTime ==
    CombineReturned =>
        /\ end_event_time = master_list[1].time
        /\ \A i \in 1 .. Len(master_list) :
             master_list[1].time <= master_list[i].time

\* a second, chained call returned and moved the cursor below the one the
\* first call left, in a list with more than one time
C7_Witness ==
    /\ ncalls = 2 /\ CombineReturned
    /\ Len(scans) = 2 /\ scans[1].returned
    /\ end_event_time < scans[2].tstop
    /\ \E i \in 1 .. Len(master_list) :
         master_list[i].time > end_event_time

Max(a, b) == IF a >= b THEN a ELSE b

Min(a, b) == IF a <= b THEN a ELSE b

\* some time lies strictly inside both windows
Overlap(w1, w2) == Max(w1.tstart, w2.tstart) < Min(w1.tstop, w2.tstop)

\* C8: over a chain of Combine calls on one instance, each given the list
\* the previous call returned, the windows searched for events do not
\* overlap and no event of the NLET file is synthesized more than once.
C8_WindowsDoNotOverlap ==
    /\ \A i, j \in 1 .. Len(scans) :
         (i < j /\ scans[i].returned /\ scans[j].returned)
             => ~Overlap(scans[i], scans[j])
    /\ CombineReturned =>
         \A i, j \in 1 .. Len(master_list) :
             (i < j /\ master_list[i].ev > 0
                    /\ master_list[i].ev = master_list[j].ev)
                 => /\ master_list[i].call = master_list[j].call
                    /\ master_list[i] # master_list[j]

\* two chained calls returned, the first synthesized a command from an event
\* and the second searched a window that is not empty
C8_Witness ==
    /\ ncalls = 2 /\ CombineReturned
    /\ Len(scans) = 2 /\ scans[1].returned
    /\ scans[2].tstart + 1 < scans[2].tstop
    /\ \E i \in 1 .. Len(master_list) :
         master_list[i].ev > 0 /\ master_list[i].call = 1

\* the last call was a Process_LTCTI that returned normally
LTCTIReturned == call.op = "Process_LTCTI" /\ ~call.raised

\* the commands of the run of the LTCTI line of the call, as expanded
RunSteps ==
    Tagged(convert_ACIS_RTS_to_ska_parse(
               processRTS(RTS.SCS_NUM, call.t.ltcti_event.arg,
                          call.t.ltcti_event.date).cmds).cmds,
           1, call.t.ltcti_event.n)

\* the times of the stop-science commands of the continuation load (the
\* review load, the first file of the list) at or after the start of the run
StopScienceTimes ==
    { DateTimeSecs(backstop_file_path_list[1][i].date) :
        i \in { j \in 1 .. Len(backstop_file_path_list[1]) :
                 /\ backstop_file_path_list[1][j].packet = "AA00000000"
                 /\ DateTimeSecs(backstop_file_path_list[1][j].date)
                        >= DateTimeSecs(call.t.ltcti_event.date) } }

EventTimeOf(r) == DateTimeSecs(nlet.lines[r.ev].date)

\* C10 as stated: commands are synthesized only from events of the window:
\* in CombineNormal and CombineTOO events strictly between the start of the
\* predecessor and the end of the continuation, in CombineSTOP events
\* strictly between the shutdown time and the start of the continuation.
C10_EventsOnlyFromWindow ==
    /\ ((NormalReturned \/ TOOReturned) /\ call.cont # << >>) =>
         \A i \in 1 .. Len(ret) :
             ret[i].ev > 0 =>
                 /\ call.cont[1].time < EventTimeOf(ret[i])
                 /\ EventTimeOf(ret[i]) < call.rev[Len(call.rev)].time
    /\ STOPReturned =>
         \A i \in 1 .. Len(ret) :
             ret[i].ev > 0 =>
                 /\ call.t < EventTimeOf(ret[i])
                 /\ EventTimeOf(ret[i]) < call.rev[1].time

\* C11 as stated: of the vehicle-only commands Combine107 puts in the output
\* exactly those with shutdown time <= time < time of the continuation's
\* first command; none before the shutdown time and none at or after the
\* continuation's first command.
C11_VehicleOnlyFromShutdown ==
    S107Returned =>
        \A j \in 1 .. Len(call.vo) :
            Count(call.vo[j], ret) =
                IF call.t <= call.vo[j].time
                   /\ call.vo[j].time < call.rev[1].time
                THEN 1 ELSE 0

\* the NLET line n is a MAN line inside the window w
ManInWindow(n, w) ==
    /\ nlet.lines[n].tok0 = "T" /\ nlet.lines[n].type = "MAN"
    /\ w.tstart < DateTimeSecs(nlet.lines[n].date)
    /\ DateTimeSecs(nlet.lines[n].date) < w.tstop

\* s holds a command cmd synthesized from line n at time t
HasEventCmd(s, n, cmd, t) ==
    \E i \in 1 .. Len(s) : s[i].ev = n /\ s[i].cmd = cmd /\ s[i].time = t

\* C12 as stated: for a MAN line Process_MAN always appends the AOMANUVR
\* command at the time of the line + 1 s; it appends the MP_TARGQUAT command
\* at the time of the line only if the pitch is not zero; for a zero pitch
\* only the AOMANUVR command is appended and the call does not fail.
C12_TargetOnlyForNonZeroPitch ==
    STOPReturned =>
        \A n \in 1 .. Len(nlet.lines) :
            ManInWindow(n, scans[1]) =>
                LET t == DateTimeSecs(nlet.lines[n].date)
                IN  /\ HasEventCmd(ret, n, "COMMAND_SW", t + TicksPerSec)
                    /\ HasEventCmd(ret, n, "MP_TARGQUAT", t)
                           <=> nlet.lines[n].arg.v # 0

\* the last call was a Combine method
CombineCalled == call.op \in CombineOps

\* the NLET line n is an event line inside the window w
LineInWindow(n, w) ==
    /\ nlet.lines[n].tok0 = "T"
    /\ w.tstart < DateTimeSecs(nlet.lines[n].date)
    /\ DateTimeSecs(nlet.lines[n].date) < w.tstop

\* the names of power commands on the model's NLET lines
PowerNames == { "WSPOW00000", "WSPOW0002A", "WSVIDALLDN", "WSPOW0CF3F" }

\* C13 as stated: for an event (time, name) with name a known power command
\* (WSPOW00000, WSPOW0002A, WSVIDALLDN) exactly one command built from that
\* name's template and stamped with the time of the event is added; any
\* other name is a fatal error: no command of another name is added and the
\* event is not dropped silently.
C13_UnknownPowerCommandIsFatal ==
    (CombineCalled /\ Len(scans) = 1) =>
        \A n \in 1 .. Len(nlet.lines) :
            (LineInWindow(n, scans[1]) /\ nlet.lines[n].type \in PowerNames) =>
                IF nlet.lines[n].type \in power_cmd_list
                THEN ~call.raised =>
                       Cardinality({ i \in 1 .. Len(ret) :
                           /\ ret[i].ev = n
                           /\ ret[i].tlmsid = nlet.lines[n].type
                           /\ ret[i].time = DateTimeSecs(nlet.lines[n].date) })
                           = 1
                ELSE call.raised

\* C14 as stated: in every scenario a call with an empty predecessor list or
\* an empty continuation list raises instead of returning a master list;
\* so does Combine107 when every command of the predecessor is at or after
\* the shutdown time.
C14_EmptyListRaises ==
    CombineCalled =>
        /\ (call.cont = << >> \/ call.rev = << >>) => call.raised
        /\ (call.op = "Combine107"
            /\ \A j \in 1 .. Len(call.cont) : call.cont[j].time >= call.t)
               => call.raised

\* C15 as stated: a Combine call that raises leaves self.master_list and the
\* cursor self.end_event_time as they were before the call.
C15_RaiseLeavesStateUnchanged ==
    [][(call'.op \in CombineOps /\ call'.raised)
           => (master_list' = master_list /\ end_event_time' = end_event_time)]_vars

\* the last call was a Find_Events_Between_Dates that returned normally
FindReturned == call.op = "Find_Events_Between_Dates" /\ ~call.raised

\* the lines of the NLET file that are no comment, do not start with GO and
\* have a time strictly between tstart and tstop
LinesBetween(tstart, tstop) ==
    { n \in 1 .. Len(nlet.lines) :
        /\ nlet.lines[n].tok0 \notin { "#", "GO" }
        /\ tstart < DateTimeSecs(nlet.lines[n].date)
        /\ DateTimeSecs(nlet.lines[n].date) < tstop }

\* C16: Find_Events_Between_Dates(tstart, tstop) returns, in the order of
\* the log, exactly the lines that are no '#' comment, whose first token is
\* not GO and whose time t has tstart < t < tstop; a line at either bound is
\* left out; the log file is not written.
C16_FindReturnsLinesBetween ==
    /\ [](FindReturned =>
            /\ { ret[i].n : i \in 1 .. Len(ret) }
                   = LinesBetween(call.t.tstart, SecsOf(call.t.tstop, Now))
            /\ \A i, j \in 1 .. Len(ret) : i < j => ret[i].n < ret[j].n
            /\ \A i \in 1 .. Len(ret) :
                 /\ ret[i].date = nlet.lines[ret[i].n].date
                 /\ ret[i].type = nlet.lines[ret[i].n].type
                 /\ ret[i].arg = nlet.lines[ret[i].n].arg)
    /\ [][nlet' = nlet]_vars

\* a search that returned one line and left out a line that is at tstart
\* or at tstop
C16_Witness ==
    /\ FindReturned
    /\ Len(ret) = 1
    /\ \E n \in 1 .. Len(nlet.lines) :
         /\ nlet.lines[n].tok0 = "T"
         /\ DateTimeSecs(nlet.lines[n].date)
                \in { call.t.tstart, SecsOf(call.t.tstop, Now) }

\* C17 as stated: the search of the NLET file does not raise on a blank
\* line, a GO line, a comment line or a line of an unknown event type: for
\* any log with such lines Find_Events_Between_Dates completes, skips them
\* and returns every event line inside the window.
C17_ScanNeverRaises ==
    (call.op = "Find_Events_Between_Dates" /\ nlet.exists) =>
        /\ ~call.raised
        /\ { ret[i].n : i \in 1 .. Len(ret) }
               = { n \in LinesBetween(call.t.tstart, SecsOf(call.t.tstop, Now)) :
                     nlet.lines[n].tok0 = "T" }

\* the lines of the script that are neither comments nor empty
ScriptSteps == SelectSeq(rts_file.steps, LAMBDA l : l.c0 # "!" /\ l.c0 # "")

\* the delay of a step under a planned duration given as ddd:hh:mm:ss
DelayOf(step, hours) ==
    IF step.delta.kind = "none" THEN 0
    ELSE IF step.delta.kind = "hours"
         THEN hours[1] * 86400 + hours[2] * 3600 + hours[3] * 60 + hours[4]
    ELSE step.delta.v[1] * 3600 + step.delta.v[2] * 60 + step.delta.v[3]

RECURSIVE SumDelays(_, _, _)
SumDelays(steps, i, hours) ==
    IF i = 0 THEN 0
    ELSE SumDelays(steps, i - 1, hours) + DelayOf(steps[i], hours)

\* the expansions made so far that returned
Expansions == { i \in 1 .. Len(ret) : ~ret[i].raised }

\* C18: processRTS returns one entry per script line that is neither a
\* comment nor empty, in script order, and the time of entry i is the run
\* start plus the sum of the delays of steps 1..i, where a step without
\* DELTA adds 0 and a DELTA of &NUM_HOURS& adds the planned duration.
C18_StepTimesAreRunningSums ==
    \A e \in Expansions :
        LET out == ret[e].processed_commands
            start == DateTimeSecs(ret[e].args.RTS_start_date)
        IN  /\ Len(out) = Len(ScriptSteps)
            /\ \A i \in 1 .. Len(out) :
                 /\ out[i].time
                      = start + SumDelays(ScriptSteps, i, ret[e].args.NUM_HOURS)
                 /\ out[i].statement = ScriptSteps[i].statement
                 /\ ScriptSteps[i].statement # "None"
                      => out[i].mnemonic = ScriptSteps[i].mnemonic

\* C18 witness: an expansion of a script with a comment line and a step
\* whose DELTA is &NUM_HOURS&, or of a script whose first step has a
\* literal DELTA and whose second step has none
C18_Witness ==
    /\ Expansions # { }
    /\ \/ /\ \E n \in 1 .. Len(rts_file.steps) : rts_file.steps[n].c0 = "!"
          /\ Len(ScriptSteps) = 1
          /\ ScriptSteps[1].delta.kind = "hours"
       \/ /\ Len(ScriptSteps) = 2
          /\ ScriptSteps[1].delta = LitDelta(1)
          /\ ScriptSteps[2].delta.kind = "none"

\* a step of the script has a negative delay: the cursor decreases there
CursorDecreases ==
    \E i \in 1 .. Len(ScriptSteps) : DelayOf(ScriptSteps[i], NumHours) < 0

\* C19: an expansion of a script in which the time cursor decreases raises
\* and returns no commands, and the times of every expansion that returns
\* do not decrease in script order.
C19_DecreasingCursorIsRejected ==
    \A e \in 1 .. Len(ret) :
        /\ (rts_file.exists /\ CursorDecreases)
             => (ret[e].raised /\ ret[e].ska_cmds = << >>)
        /\ ~ret[e].raised
             => \A i \in 1 .. Len(ret[e].processed_commands) - 1 :
                    ret[e].processed_commands[i].time
                        <= ret[e].processed_commands[i + 1].time

\* C20: two expansions with the same arguments give the same outcome,
\* whatever was called on the instance between them.
C20_ExpansionIsDeterministic ==
    \A i, j \in 1 .. Len(ret) :
        ret[i].args = ret[j].args
            => /\ ret[i].raised = ret[j].raised
               /\ ret[i].processed_commands = ret[j].processed_commands
               /\ ret[i].ska_cmds = ret[j].ska_cmds

\* C21: a CombineNormal on a list that is already merged and sorted (the
\* predecessor followed by the continuation is in non-decreasing order of
\* time; the predecessor may be empty), with no event in the window
\* searched, returns that list: the same commands, as often, in that order.
C21_NormalIsIdempotent ==
    (NormalReturned /\ IsSorted(call.cont \o call.rev)
       /\ WindowIsEmpty(scans[1]))
        => ret = call.cont \o call.rev

\* a CombineNormal of a predecessor that ends at the time the continuation
\* starts, with an event line in the NLET file outside the window searched
C21_Witness ==
    /\ NormalReturned
    /\ call.cont # << >>
    /\ Len(call.rev) > 1
    /\ IsSorted(call.cont \o call.rev)
    /\ call.cont[Len(call.cont)].time = call.rev[1].time
    /\ \E i \in 1 .. Len(nlet.lines) : nlet.lines[i].tok0 = "T"
    /\ WindowIsEmpty(scans[1])

\* the last call was a load acquisition
AcquireOps == { "get_bs_cmds", "get_vehicle_only_bs_cmds" }

\* C22: get_bs_cmds and get_vehicle_only_bs_cmds raise the IOError of
\* globfile when no file or more than one file matches, and such a call
\* leaves self.backstop_file_path_list as it was.
C22_AmbiguousLoadRaises ==
    /\ [](call.op \in AcquireOps /\ call.t.nfiles # 1
            => call.raised /\ call.t.exception = "IOError")
    /\ [][(call'.op \in AcquireOps /\ call'.t.nfiles # 1)
            => backstop_file_path_list' = backstop_file_path_list]_vars

\* a get_bs_cmds on a directory with two matching files, after a Combine
\* call of the instance
C22_Witness ==
    /\ call.op = "get_bs_cmds"
    /\ call.t.nfiles = 2
    /\ ncalls = 2
    /\ master_list # << >>

\* C23: get_bs_cmds on a directory with exactly one CR*.backstop file
\* returns normally and the path of that file is then the last entry of
\* self.backstop_file_path_list.
C23_UniqueLoadIsRecorded ==
    (call.op = "get_bs_cmds" /\ call.t.nfiles = 1)
        => /\ ~call.raised
           /\ backstop_file_path_list # << >>

\* the BackChain call has returned
BackChainDone == call.op = "BackChain" /\ call.t.pc = "done"

\* the directory whose continuity file gave record i of the array r
ChainDir(r, i) == IF i = 1 THEN call.t.base_load_dir ELSE r[i - 1].cont_file

LineSearched(n) == \E w \in 1 .. Len(scans) : LineInWindow(n, scans[w])

\* the commands of the master list made for the NLET line n
CmdsOfLine(n) == { i \in 1 .. Len(master_list) : master_list[i].ev = n }

\* C26: CombineNormal, CombineTOO and Combine107 add no command for a MAN
\* line in their window, CombineSTOP adds the commands of the manoeuvre; in
\* every method a line of a type that is neither LTCTI, a known power
\* command nor MAN adds no command, and a call whose window holds no LTCTI
\* line returns.
C26_DispatchPerScenario ==
    CombineCalled =>
        /\ \A n \in 1 .. Len(nlet.lines) :
             LineSearched(n) =>
                LET type == nlet.lines[n].type
                IN  /\ (type = "MAN" /\ call.op # "CombineSTOP")
                          => CmdsOfLine(n) = { }
                    /\ (type = "MAN" /\ call.op = "CombineSTOP")
                          => CmdsOfLine(n) # { }
                    /\ type \notin { "MAN", "LTCTI" } \cup power_cmd_list
                          => CmdsOfLine(n) = { }
        /\ (scans # << >>
              /\ \A n \in 1 .. Len(nlet.lines) :
                   LineSearched(n) => nlet.lines[n].type # "LTCTI")
             => ~call.raised

\* a Combine107 with a MAN line in its window
C26_Witness ==
    /\ S107Returned
    /\ \E n \in 1 .. Len(nlet.lines) :
         LineSearched(n) /\ nlet.lines[n].type = "MAN"

\* the positions among the steps of the script of the steps that are ACIS
AcisPositions == { i \in 1 .. Len(ScriptSteps) : ScriptSteps[i].statement = "ACIS" }

\* C27: convert_ACIS_RTS_to_ska_parse returns one command for each step of
\* the script whose statement is ACIS, in script order, with the time
\* processRTS gave the step, which includes the delays of the steps of other
\* statements before it, and with step set to the position of the step
\* among all steps of the script, counted from 1.
C27_OnlyAcisStepsMaterialised ==
    \A e \in Expansions :
        LET out == ret[e].ska_cmds
            start == DateTimeSecs(ret[e].args.RTS_start_date)
        IN  /\ Len(out) = Cardinality(AcisPositions)
            /\ \A i \in 1 .. Len(out) :
                 /\ out[i].step \in AcisPositions
                 /\ out[i].time
                      = start + SumDelays(ScriptSteps, out[i].step,
                                          ret[e].args.NUM_HOURS)
                 /\ out[i].time = ret[e].processed_commands[out[i].step].time
            /\ \A i \in 1 .. Len(out) - 1 : out[i].step < out[i + 1].step

\* an expansion of a script whose first step is a /CMD step with a delay and
\* whose second step is an ACIS step
C27_Witness ==
    /\ Expansions # { }
    /\ Len(ScriptSteps) = 2
    /\ ScriptSteps[1].statement = "/CMD"
    /\ ScriptSteps[1].delta = LitDelta(1)
    /\ ScriptSteps[2].statement = "ACIS"

\* the addresses of the command dicts in the master list
MasterRefs == { master_list[i].ref : i \in 1 .. Len(master_list) }

\* C28: the template dicts and their params dicts are as constructed after
\* any sequence of syntheses, every command dict of the master list is a
\* dict of its own that is no template, and its params dict is shared with
\* no template and with no other command dict of the list.
C28_TemplatesAreNeverMutated ==
    /\ \A a \in 1 .. Len(TemplateObjects) : heap[a] = TemplateObjects[a]
    /\ Cardinality(MasterRefs) = Len(master_list)
    /\ \A a \in MasterRefs :
         /\ a > Len(TemplateObjects)
         /\ heap[a].params > Len(TemplateObjects)
         /\ \A b \in MasterRefs : a # b => heap[a].params # heap[b].params

\* two manoeuvres were synthesized with different quaternions, both
\* different from the template's
C28_Witness ==
    /\ Len(master_list) = 4
    /\ heap[master_list[1].ref].cmd = "MP_TARGQUAT"
    /\ heap[master_list[3].ref].cmd = "MP_TARGQUAT"
    /\ heap[heap[master_list[1].ref].params].Q
         # heap[heap[master_list[3].ref].params].Q
    /\ heap[master_list[1].ref].time # TemplateTime

\* ------------------------------------------------------------------------
\* C29
\* ------------------------------------------------------------------------
\* the list objects the caller passed to the last Combine call
InputRefs ==
    IF call.op = "Combine107" THEN { call.cont, call.vo, call.rev }
    ELSE { call.cont, call.rev }

\* C29: a Combine call leaves every list the caller passed it as it was at
\* the call: the predecessor, vehicle-only and continuation lists hold the
\* same records in the same order afterwards, also when the continuation is
\* the instance's own master list, which the call rebinds to a new list
\* before it appends anything.
C29_InputListsAreReadOnly ==
    call.op \in CombineOps =>
        /\ \A a \in InputRefs : heap[a] = call.t.before[a]
        /\ (~call.raised => master_list.ref \notin InputRefs)

\* a second call returned, its continuation the master list of the first
\* call, with a command appended for an event
C29_Witness ==
    /\ call.op \in CombineOps
    /\ ~call.raised
    /\ call.t.own
    /\ heap[call.rev] # << >>
    /\ heap[call.cont] # << >>
    /\ \E i \in 1 .. Len(heap[master_list.ref]) :
         /\ heap[master_list.ref][i].ev # 0
         /\ heap[master_list.ref][i].call = ncalls

\* ------------------------------------------------------------------------
\* C30
\* ------------------------------------------------------------------------
\* the commands of a list without the number of the call that brought them in
Content(s) == [i \in 1 .. Len(s) |-> [s[i] EXCEPT !.call = 0]]

\* the last call is the first Combine call after clear_backstop_lists, and
\* its arguments are those of the call made on the new instance
SecondHistory ==
    /\ call.op = "CombineNormal"
    /\ call.t.after_clear
    /\ ncalls > 1
    /\ call.t.first.done
    /\ Content(call.cont) = Content(call.t.first.cont)
    /\ Content(call.rev) = Content(call.t.first.rev)

\* C30: after a first history and clear_backstop_lists, the same instance
\* assembles a second history as a new instance does: with the arguments of
\* the call made on the new instance, the call returns, and the master list
\* holds the commands that call returned.
C30_ReuseGivesFreshResult ==
    SecondHistory =>
        /\ ~call.raised
        /\ Content(master_list) = Content(call.t.first.ret)

====
